---------------------------- MODULE Spec2Model ----------------------------
(***************************************************************************)
(* A model of dix (faukah/dix): the version model (src/version.rs), the    *)
(* store-path parser (src/lib.rs) and the diff builder (src/diff.rs).      *)
(*                                                                         *)
(* Strings are sequences of characters; a character is a one-character     *)
(* TLA+ string.  Orderings are the strings "Less", "Equal", "Greater"      *)
(* (std::cmp::Ordering).                                                   *)
(***************************************************************************)
EXTENDS Integers, Sequences, FiniteSets, TLC

VARIABLES
  cmpIn,      \* version.rs: the two components handed to VersionComponent::cmp
  cmpOut,     \* version.rs: the orderings it returned
  verIn,      \* version.rs: the three versions handed to Version::cmp
  verOut,     \* version.rs: the orderings it returned
  source,     \* version.rs: the string a Pieces iterator was created over
  remaining,  \* version.rs: Pieces.remaining
  pieces,     \* version.rs: the pieces next() has yielded so far
  parseIn,    \* lib.rs: the (name, version) a store path was built from
  parseOut,   \* lib.rs: the result of parse_name_and_version
  paths,      \* diff.rs: the map handed to generate_diffs_from_paths
  todo,       \* diff.rs: the keys the loop over the map has not visited
  result,     \* diff.rs: the Vec<Diff> built so far
  matched,    \* diff.rs: per name, the pairings determine_change_status saw
  matchIn,    \* diff.rs: the (from, to) handed to match_version_lists
  matchOut,   \* diff.rs: the pairings match_version_lists returned
  runs,       \* diff.rs: per run over the same map, what each package reports
  sys_old_set,  \* diff.rs: the names of the old system paths
  sys_new_set,  \* diff.rs: the names of the new system paths
  diffs,      \* diff.rs: the Vec<Diff> write_packages_diff sorts and renders
  next_diff,  \* diff.rs: 0 before the sort, then the place render_diffs is at
  last_status,  \* diff.rs: render_diffs' last_status
  output,     \* diff.rs: the lines written to the writer
  old_iter,   \* diff.rs: what is left of collect_path_versions' `old`
  new_iter,   \* diff.rs: what is left of collect_path_versions' `new`
  collected,  \* diff.rs: collect_path_versions' map `paths`
  collect_state,  \* diff.rs: "running", "returned" or "panicked"
  frontends,  \* store.rs: CombinedStoreFrontend's members, each with its conn
  phase,      \* store.rs: "new", "connected" or "closed"
  last_call,  \* store.rs: the last operation, the member calls it made and
              \* what it returned
  backend,    \* store.rs, db_eager.rs: one SQL backend and its last call
  closure,    \* queries.rs: the evaluation of a recursive closure query
  command,    \* nix_command.rs: one query of the command backend
  cli,        \* main.rs: the run of main from the package diff on
  lev,        \* diff.rs: the arguments and the result of levenshtein
  row_query,  \* db_lazy.rs, db_eager.rs: one row query and what it yields
  fmt         \* diff.rs: one call of fmt_single_version_diff

vars == <<cmpIn, cmpOut, verIn, verOut, source, remaining, pieces,
          parseIn, parseOut, paths, todo, result, matched,
          matchIn, matchOut, runs,
          sys_old_set, sys_new_set, diffs, next_diff, last_status, output,
          old_iter, new_iter, collected, collect_state,
          frontends, phase, last_call,
          backend, closure, command, cli, lev, row_query, fmt>>

cmpVars == <<cmpIn, cmpOut>>
verVars == <<verIn, verOut>>
pieceVars == <<source, remaining, pieces>>
parseVars == <<parseIn, parseOut>>
diffVars == <<paths, todo, result, matched>>
matchVars == <<matchIn, matchOut>>
reportVars == <<sys_old_set, sys_new_set, diffs, next_diff, last_status,
                output>>
collectVars == <<old_iter, new_iter, collected, collect_state>>
storeVars == <<frontends, phase, last_call>>
lateVars == <<backend, closure, command, cli, lev, row_query, fmt>>
moreVars == <<matchVars, runs, reportVars, collectVars, storeVars, lateVars>>
earlyVars == <<cmpVars, verVars, pieceVars, parseVars, diffVars, matchVars,
               runs, reportVars, collectVars, storeVars>>

None == [some |-> FALSE]

Some(v) == [some |-> TRUE, val |-> v]

(***************************************************************************)
(* Characters and strings                                                  *)
(***************************************************************************)

Digits == {"0", "1", "2", "3", "4", "5", "6", "7", "8", "9"}

\* The decimal digits in order, for usize::to_string.
Digits10 == <<"0", "1", "2", "3", "4", "5", "6", "7", "8", "9">>

\* version.rs:13
SEPARATORS == {".", "-", "_", "+", "*", "=", "×", " "}

\* The code point of a character (str::cmp compares bytes; every character
\* the model compares is ASCII).
Code(c) ==
  CASE c = "\n" -> 10
    [] c = " " -> 32
    [] c = "-" -> 45
    [] c = "." -> 46
    [] c = "/" -> 47
    [] c = "0" -> 48
    [] c = "1" -> 49
    [] c = "2" -> 50
    [] c = "3" -> 51
    [] c = "4" -> 52
    [] c = "5" -> 53
    [] c = "6" -> 54
    [] c = "7" -> 55
    [] c = "8" -> 56
    [] c = "9" -> 57
    [] c = "a" -> 97
    [] c = "b" -> 98
    [] c = "e" -> 101
    [] c = "p" -> 112
    [] c = "r" -> 114

\* std::cmp::Ordering::reverse
Reverse(o) ==
  CASE o = "Less" -> "Greater"
    [] o = "Greater" -> "Less"
    [] o = "Equal" -> "Equal"

\* usize::cmp
NatCmp(m, n) == IF m < n THEN "Less" ELSE IF m > n THEN "Greater" ELSE "Equal"

\* str::cmp: lexicographic over the bytes, a proper prefix is Less.
RECURSIVE StrCmp(_, _)
StrCmp(x, y) ==
  IF x = <<>> /\ y = <<>> THEN "Equal"
  ELSE IF x = <<>> THEN "Less"
  ELSE IF y = <<>> THEN "Greater"
  ELSE IF Code(Head(x)) < Code(Head(y)) THEN "Less"
  ELSE IF Code(Head(x)) > Code(Head(y)) THEN "Greater"
  ELSE StrCmp(Tail(x), Tail(y))

RECURSIVE Concat(_)
Concat(ss) == IF ss = <<>> THEN <<>> ELSE Head(ss) \o Concat(Tail(ss))

(***************************************************************************)
(* version.rs: Pieces                                                      *)
(***************************************************************************)

Separator(s) == [kind |-> "Separator", text |-> s]

Component(s) == [kind |-> "Component", text |-> s]

\* The length of the longest prefix of s without a separator
\* (chars().take_while(|c| !SEPARATORS.contains(c)) summed).
RECURSIVE TakeWhileNotSeparator(_)
TakeWhileNotSeparator(s) ==
  IF s = <<>> \/ Head(s) \in SEPARATORS THEN 0
  ELSE 1 + TakeWhileNotSeparator(Tail(s))

\* A wrong take_while: a component stops after its first character.
PiecesNextLenOneChar(s) == 1

\* The length of the piece Pieces::next cuts off a non-empty remaining.
PiecesNextLen(s) ==
  IF Head(s) \in SEPARATORS THEN 1 ELSE TakeWhileNotSeparator(s)

\* Pieces::next on a non-empty remaining: the piece and the new remaining.
PiecesNext(s) ==
  LET len == PiecesNextLen(s)
      text == SubSeq(s, 1, len)
  IN [piece |-> IF Head(s) \in SEPARATORS THEN Separator(text)
                ELSE Component(text),
      rest |-> SubSeq(s, len + 1, Len(s))]

\* Pieces collected to the end.
RECURSIVE PiecesOf(_)
PiecesOf(s) ==
  IF s = <<>> THEN <<>>
  ELSE LET n == PiecesNext(s) IN <<n.piece>> \o PiecesOf(n.rest)

\* Version::components: the pieces filtered through VersionPiece::component.
RECURSIVE ComponentsOfPieces(_)
ComponentsOfPieces(ps) ==
  IF ps = <<>> THEN <<>>
  ELSE IF Head(ps).kind = "Component"
       THEN <<Head(ps).text>> \o ComponentsOfPieces(Tail(ps))
       ELSE ComponentsOfPieces(Tail(ps))

components(name) == ComponentsOfPieces(PiecesOf(name))

(***************************************************************************)
(* version.rs: VersionComponent                                            *)
(***************************************************************************)

is_numeric(c) == c # <<>> /\ \A i \in 1..Len(c) : c[i] \in Digits

\* u64::MAX in decimal (18446744073709551615).
U64MaxDigits ==
  <<"1", "8", "4", "4", "6", "7", "4", "4", "0", "7",
    "3", "7", "0", "9", "5", "5", "1", "6", "1", "5">>

\* A digit string without its leading zeros ("0" for zero): the decimal form
\* of the number it denotes.
RECURSIVE TrimZeros(_)
TrimZeros(c) ==
  IF Len(c) > 1 /\ Head(c) = "0" THEN TrimZeros(Tail(c)) ELSE c

\* Two numbers in decimal form, compared as integers.
DecimalCmp(x, y) ==
  IF Len(x) # Len(y) THEN NatCmp(Len(x), Len(y)) ELSE StrCmp(x, y)

\* VersionComponent::as_u64: str::parse::<u64> fails on overflow.  The u64 is
\* kept in decimal form.
as_u64(c) ==
  IF is_numeric(c) /\ DecimalCmp(TrimZeros(c), U64MaxDigits) # "Greater"
  THEN Some(TrimZeros(c))
  ELSE None

\* impl Ord for VersionComponent
ComponentCmp(self, other) ==
  CASE is_numeric(self) /\ is_numeric(other) ->
         IF as_u64(self).some /\ as_u64(other).some
         THEN DecimalCmp(as_u64(self).val, as_u64(other).val)
         ELSE StrCmp(self, other)
    [] ~is_numeric(self) /\ ~is_numeric(other) ->
         IF self = <<"p", "r", "e">> THEN "Less"
         ELSE IF other = <<"p", "r", "e">> THEN "Greater"
         ELSE StrCmp(self, other)
    [] is_numeric(self) /\ ~is_numeric(other) -> "Less"
    [] ~is_numeric(self) /\ is_numeric(other) -> "Greater"

(***************************************************************************)
(* version.rs: Version                                                     *)
(***************************************************************************)

\* Version::new
Version(name) == [name |-> name, amount |-> 1]

\* The first non-Equal component ordering among the first n components.
RECURSIVE CommonPrefixCmp(_, _, _, _)
CommonPrefixCmp(a, b, i, n) ==
  IF i > n THEN "Equal"
  ELSE IF ComponentCmp(a[i], b[i]) # "Equal" THEN ComponentCmp(a[i], b[i])
  ELSE CommonPrefixCmp(a, b, i + 1, n)

\* impl Ord for Version, on the two component vectors.
ComponentsCmp(self_comps, other_comps) ==
  LET min_len == IF Len(self_comps) < Len(other_comps)
                 THEN Len(self_comps) ELSE Len(other_comps)
      ord == CommonPrefixCmp(self_comps, other_comps, 1, min_len)
  IN IF ord # "Equal" THEN ord
     ELSE CASE Len(self_comps) = Len(other_comps) -> "Equal"
            [] Len(self_comps) > Len(other_comps) ->
                 IF \E i \in (min_len + 1)..Len(self_comps) :
                      ~is_numeric(self_comps[i])
                 THEN "Less" ELSE "Greater"
            [] Len(self_comps) < Len(other_comps) ->
                 IF \E i \in (min_len + 1)..Len(other_comps) :
                      ~is_numeric(other_comps[i])
                 THEN "Greater" ELSE "Less"

\* Version::cmp
VersionCmp(self, other) ==
  ComponentsCmp(components(self.name), components(other.name))

(***************************************************************************)
(* The orderings of version.rs applied to bounded inputs                   *)
(***************************************************************************)

\* The most components a compared version has.
MaxComponents == 3

\* 2^64 and 10^20 in decimal: the smallest digit strings as_u64 rejects with
\* 20 and with 21 digits.
TwoPow64Digits ==
  <<"1", "8", "4", "4", "6", "7", "4", "4", "0", "7",
    "3", "7", "0", "9", "5", "5", "1", "6", "1", "6">>

TenPow20Digits ==
  <<"1", "0", "0", "0", "0", "0", "0", "0", "0", "0", "0",
    "0", "0", "0", "0", "0", "0", "0", "0", "0", "0">>

\* Version components the component ordering is applied to.
ComponentUniverse ==
  { <<"0">>, <<"1">>, <<"2">>, <<"9">>, <<"1", "0">>, <<"0", "0", "7">>,
    <<"0", "1">>, U64MaxDigits, TwoPow64Digits, TenPow20Digits,
    <<"a">>, <<"b">>, <<"p", "r", "e">>, <<"1", "a">>, <<"a", "1">> }

\* The components and separators compared versions are built from.
VerFirstComponents == { <<"0">>, <<"1">> }

VerComponents == { <<"0">>, <<"1">>, <<"a">>, <<"p", "r", "e">> }

VerSeparators == { ".", "-" }

\* Version strings of exactly k components: a number, then separator and
\* component k - 1 times.
RECURSIVE VersionsOfLen(_)
VersionsOfLen(k) ==
  IF k = 1 THEN VerFirstComponents
  ELSE { v \o <<s>> \o c :
           v \in VersionsOfLen(k - 1), s \in VerSeparators, c \in VerComponents }

VersionsUpTo(n) == UNION { VersionsOfLen(k) : k \in 1..n }

IdleCmp == cmpIn = <<>> /\ cmpOut = None

IdleVer == verIn = <<>> /\ verOut = None

IdlePieces == source = <<>> /\ remaining = <<>> /\ pieces = <<>>

IdleParse == parseIn = <<>> /\ parseOut = None

IdleDiff == paths = <<>> /\ todo = {} /\ result = <<>> /\ matched = <<>>

IdleMatch == matchIn = <<>> /\ matchOut = None

IdleRuns == runs = <<>>

IdleReport ==
  /\ sys_old_set = {} /\ sys_new_set = {}
  /\ diffs = <<>> /\ next_diff = 0 /\ last_status = None /\ output = <<>>

IdleCollect ==
  /\ old_iter = <<>> /\ new_iter = <<>>
  /\ collected = <<>> /\ collect_state = "returned"

IdleStore == frontends = <<>> /\ phase = "closed" /\ last_call = None

IdleBackend == backend = <<>>
IdleClosure == closure = <<>>
IdleCommand == command = <<>>
IdleCli == cli = <<>>
IdleLev == lev = <<>>
IdleRows == row_query = <<>>
IdleFmt == fmt = <<>>

IdleLate ==
  /\ IdleBackend /\ IdleClosure /\ IdleCommand /\ IdleCli /\ IdleLev
  /\ IdleRows /\ IdleFmt

IdleMore ==
  /\ IdleMatch /\ IdleRuns /\ IdleReport /\ IdleCollect /\ IdleStore
  /\ IdleLate

IdleEarly ==
  /\ IdleCmp /\ IdleVer /\ IdlePieces /\ IdleParse /\ IdleDiff
  /\ IdleMatch /\ IdleRuns /\ IdleReport /\ IdleCollect /\ IdleStore

\* VersionComponent::cmp on a pair of components, both ways round.
CompareComponents ==
  /\ Len(cmpIn) = 2
  /\ cmpOut = None
  /\ cmpOut' = Some([ab |-> ComponentCmp(cmpIn[1], cmpIn[2]),
                     ba |-> ComponentCmp(cmpIn[2], cmpIn[1])])
  /\ UNCHANGED <<cmpIn, verVars, pieceVars, parseVars, diffVars, moreVars>>

\* Version::cmp on a pair of versions, both ways round.
CompareVersions ==
  /\ Len(verIn) = 2
  /\ verOut = None
  /\ LET a == Version(verIn[1])
         b == Version(verIn[2])
     IN verOut' = Some([ab |-> VersionCmp(a, b), ba |-> VersionCmp(b, a)])
  /\ UNCHANGED <<verIn, cmpVars, pieceVars, parseVars, diffVars, moreVars>>

\* Version::cmp along a chain of three versions.
CompareThree ==
  /\ Len(verIn) = 3
  /\ verOut = None
  /\ LET a == Version(verIn[1])
         b == Version(verIn[2])
         c == Version(verIn[3])
     IN verOut' = Some([ab |-> VersionCmp(a, b), bc |-> VersionCmp(b, c),
                        ac |-> VersionCmp(a, c)])
  /\ UNCHANGED <<verIn, cmpVars, pieceVars, parseVars, diffVars, moreVars>>

InitOrder ==
  /\ \/ /\ cmpIn \in ComponentUniverse \X ComponentUniverse
        /\ verIn = <<>>
     \/ /\ cmpIn = <<>>
        /\ verIn \in VersionsUpTo(MaxComponents) \X VersionsUpTo(MaxComponents)
     \/ /\ cmpIn = <<>>
        /\ verIn \in VersionsUpTo(MaxComponents - 1)
                       \X VersionsUpTo(MaxComponents - 1)
                       \X VersionsUpTo(MaxComponents - 1)
  /\ cmpOut = None
  /\ verOut = None
  /\ IdlePieces /\ IdleParse /\ IdleDiff /\ IdleMore

NextOrder == CompareComponents \/ CompareVersions \/ CompareThree

SpecOrder == InitOrder /\ [][NextOrder]_vars

LeEq(o) == o \in {"Less", "Equal"}

\* C2: Version::cmp(a, b) is the reverse of Version::cmp(b, a) for all
\* versions a and b, and VersionComponent::cmp likewise on all components.
C2_Antisymmetric ==
  /\ cmpOut.some => cmpOut.val.ab = Reverse(cmpOut.val.ba)
  /\ (verOut.some /\ Len(verIn) = 2) => verOut.val.ab = Reverse(verOut.val.ba)

\* C3: Version::cmp is transitive: cmp(a,b) <= 0 and cmp(b,c) <= 0 imply
\* cmp(a,c) <= 0.
C3_Transitive ==
  (verOut.some /\ Len(verIn) = 3) =>
    ((LeEq(verOut.val.ab) /\ LeEq(verOut.val.bc)) => LeEq(verOut.val.ac))

\* C4: a numeric component compares greater than a non-numeric one.
C4_NumericGreaterThanText ==
  cmpOut.some =>
    /\ (is_numeric(cmpIn[1]) /\ ~is_numeric(cmpIn[2])) =>
         cmpOut.val.ab = "Greater"
    /\ (~is_numeric(cmpIn[1]) /\ is_numeric(cmpIn[2])) =>
         cmpOut.val.ab = "Less"

\* C5: two numeric components are ordered by integer magnitude, whatever
\* the length of their digit strings.
C5_NumericByMagnitude ==
  (cmpOut.some /\ is_numeric(cmpIn[1]) /\ is_numeric(cmpIn[2])) =>
    cmpOut.val.ab = DecimalCmp(TrimZeros(cmpIn[1]), TrimZeros(cmpIn[2]))

\* Whether q is a prefix of p.
IsPrefix(q, p) == Len(q) <= Len(p) /\ SubSeq(p, 1, Len(q)) = q

\* C6: when the longer version A agrees with the shorter B on all of B's
\* components, A < B if one of A's extra components is non-numeric and
\* A > B if all are numeric; equal component sequences compare Equal.
C6_TailRule ==
  (verOut.some /\ Len(verIn) = 2) =>
    LET A == components(verIn[1])
        B == components(verIn[2])
        extra == { A[i] : i \in (Len(B) + 1)..Len(A) }
    IN /\ A = B => verOut.val.ab = "Equal"
       /\ (IsPrefix(B, A) /\ Len(A) > Len(B)) =>
            /\ verOut.val.ab =
                 (IF \E c \in extra : ~is_numeric(c) THEN "Less" ELSE "Greater")
            /\ verOut.val.ba = Reverse(verOut.val.ab)

(***************************************************************************)
(* version.rs: a Pieces iterator driven to its end                         *)
(***************************************************************************)

\* The longest version string tokenized.
MaxVersionLen == 4

PieceAlphabet == {"1", "a", ".", "-", "×"}

\* The strings over alphabet of at most n characters.
StringsUpTo(alphabet, n) == UNION { [1..k -> alphabet] : k \in 0..n }

\* Pieces::new
InitPieces ==
  /\ source \in StringsUpTo(PieceAlphabet, MaxVersionLen)
  /\ remaining = source
  /\ pieces = <<>>
  /\ IdleCmp /\ IdleVer /\ IdleParse /\ IdleDiff /\ IdleMore

\* Pieces::next returning Some(piece); on an empty remaining it returns None
\* and changes nothing.
PiecesNextCall ==
  /\ remaining # <<>>
  /\ pieces' = Append(pieces, PiecesNext(remaining).piece)
  /\ remaining' = PiecesNext(remaining).rest
  /\ UNCHANGED <<source, cmpVars, verVars, parseVars, diffVars, moreVars>>

NextPieces == PiecesNextCall

SpecPieces == InitPieces /\ [][NextPieces]_vars

PieceTexts == [i \in 1..Len(pieces) |-> pieces[i].text]

\* C8: the pieces yielded so far, followed by what remains, concatenate to
\* the version string; a Separator is exactly one separator character; a
\* Component is a non-empty maximal run of non-separator characters (the
\* piece after it is a Separator, or the string ends, or a separator
\* follows in what remains); a non-empty string yields at least one piece.
C8_PiecesPartition ==
  /\ Concat(PieceTexts) \o remaining = source
  /\ \A i \in 1..Len(pieces) :
       LET p == pieces[i] IN
       /\ p.kind \in {"Separator", "Component"}
       /\ p.kind = "Separator" =>
            Len(p.text) = 1 /\ p.text[1] \in SEPARATORS
       /\ p.kind = "Component" =>
            /\ Len(p.text) >= 1
            /\ \A k \in 1..Len(p.text) : p.text[k] \notin SEPARATORS
            /\ i < Len(pieces) => pieces[i + 1].kind = "Separator"
            /\ (i = Len(pieces) /\ remaining # <<>>) =>
                 Head(remaining) \in SEPARATORS
  /\ (remaining = <<>> /\ source # <<>>) => Len(pieces) >= 1

\* A string is tokenized to its end and holds a component of two characters
\* between two separators.
C8_Witness ==
  /\ remaining = <<>>
  /\ Len(pieces) = 3
  /\ pieces[1].kind = "Separator"
  /\ pieces[2].kind = "Component" /\ Len(pieces[2].text) = 2
  /\ pieces[3].kind = "Separator"

(***************************************************************************)
(* lib.rs: StorePath::parse_name_and_version                               *)
(***************************************************************************)

\* The longest package name and the longest version a store path is built
\* from.
MaxNameLen == 3

MaxPathVersionLen == 2

PathAlphabet == {"a", "1", "-", "\n"}

\* "/nix/store/"
StoreDir == <<"/", "n", "i", "x", "/", "s", "t", "o", "r", "e", "/">>

\* The length of "/nix/store/" (lib.rs:85), the position of the '-' after
\* the hash (lib.rs:86) and the length of the prefix stripped (lib.rs:87).
StoreDirLen == 11

HashDashPos == 43

StorePrefixLen == 44

\* "/nix/store/" + 32 x "0" + "-" + name + "-" + version
StorePathOf(name, version) ==
  StoreDir \o [i \in 1..(HashDashPos - StoreDirLen) |-> "0"] \o <<"-">>
    \o name \o <<"-">> \o version

\* The regex's "." : any character but a line feed.
Dot(c) == c # "\n"

\* Whether "(-([0-9].*?))?$" matches h from index e on: group 2 to the end of
\* h, or nothing left.
TailMatches(h, e) ==
  \/ e = Len(h) + 1
  \/ /\ e + 1 <= Len(h)
     /\ h[e] = "-"
     /\ h[e + 1] \in Digits
     /\ \A k \in (e + 2)..Len(h) : Dot(h[k])

\* The ends e (one past the last character) of group 1, "(.+?)", started at s,
\* for which the whole regex matches.
NameEnds(h, s) ==
  { e \in (s + 1)..(Len(h) + 1) :
      /\ \A k \in s..(e - 1) : Dot(h[k])
      /\ TailMatches(h, e) }

Min(S) == CHOOSE x \in S : \A y \in S : x <= y

Max(S) == CHOOSE x \in S : \A y \in S : x >= y

\* A greedy group 1: the name runs to the last place the regex allows.
NameEndGreedy(h, s) == Max(NameEnds(h, s))

\* The lazy group 1 ends at the first place the rest matches.
NameEnd(h, s) == Min(NameEnds(h, s))

\* Regex::captures for "(.+?)(-([0-9].*?))?$": the leftmost start with a
\* match, and there the shortest group 1.  Group 2 is None when skipped.
Captures(h) ==
  LET starts == { s \in 1..Len(h) : NameEnds(h, s) # {} } IN
  IF starts = {} THEN None
  ELSE LET s == Min(starts)
           e == NameEnd(h, s)
       IN Some([g1 |-> SubSeq(h, s, e - 1),
                g2 |-> IF e = Len(h) + 1 THEN None
                       ELSE Some(SubSeq(h, e, Len(h)))])

\* str::trim_start_matches('-')
RECURSIVE TrimStartDashes(_)
TrimStartDashes(x) ==
  IF x # <<>> /\ Head(x) = "-" THEN TrimStartDashes(Tail(x)) ELSE x

\* StorePath::parse_name_and_version on the path's string.  The two
\* assert_eq! panic on a path that is too short or has another shape.
parse_name_and_version(path) ==
  IF \/ Len(path) < StorePrefixLen
     \/ SubSeq(path, 1, StoreDirLen) # StoreDir
     \/ path[HashDashPos + 1] # "-"
  THEN [kind |-> "Panic"]
  ELSE LET stripped == SubSeq(path, StorePrefixLen + 1, Len(path))
           captures == Captures(stripped)
       IN IF ~captures.some THEN [kind |-> "Err"]
          ELSE IF captures.val.g1 = <<>> THEN [kind |-> "Err"]
          ELSE [kind |-> "Ok",
                name |-> captures.val.g1,
                version |->
                  IF captures.val.g2.some
                  THEN Some(Version(TrimStartDashes(captures.val.g2.val)))
                  ELSE None]

InitParse ==
  /\ parseIn \in (StringsUpTo(PathAlphabet, MaxNameLen) \ {<<>>})
                   \X StringsUpTo(PathAlphabet, MaxPathVersionLen)
  /\ parseOut = None
  /\ IdleCmp /\ IdleVer /\ IdlePieces /\ IdleDiff /\ IdleMore

\* parse_name_and_version on the store path built from (name, version).
Parse ==
  /\ parseOut = None
  /\ parseOut' =
       Some(parse_name_and_version(StorePathOf(parseIn[1], parseIn[2])))
  /\ UNCHANGED <<parseIn, cmpVars, verVars, pieceVars, diffVars, moreVars>>

NextParse == Parse

SpecParse == InitParse /\ [][NextParse]_vars

\* The parse returned exactly (name, Some(version)).
RoundTrips ==
  /\ parseOut.val.kind = "Ok"
  /\ parseOut.val.name = parseIn[1]
  /\ parseOut.val.version = Some(Version(parseIn[2]))

StartsWithDigit(x) == x # <<>> /\ Head(x) \in Digits

\* A '-' after the first character that is followed by a digit.
HasInnerDashDigit(x) ==
  \E i \in 2..(Len(x) - 1) : x[i] = "-" /\ x[i + 1] \in Digits

HasLineFeed(x) == \E i \in 1..Len(x) : x[i] = "\n"

\* C7 as claimed: the parse of the path built from (name, version) returns
\* exactly (name, Some(version)) iff version starts with an ASCII digit.
C7_RoundTripIffDigit ==
  parseOut.some => (RoundTrips <=> StartsWithDigit(parseIn[2]))

\* C7 as amended: it returns exactly (name, Some(version)) iff version starts
\* with an ASCII digit, name holds no '-' followed by a digit after its first
\* character, and neither holds a line feed.
C7_RoundTripIffFirstDashDigit ==
  parseOut.some =>
    (RoundTrips <=>
       /\ StartsWithDigit(parseIn[2])
       /\ ~HasInnerDashDigit(parseIn[1])
       /\ ~HasLineFeed(parseIn[1])
       /\ ~HasLineFeed(parseIn[2]))

\* A name that holds a '-' round-trips with a version that holds one too.
C7_Witness ==
  /\ parseOut.some
  /\ RoundTrips
  /\ parseIn[1] = <<"a", "-", "a">>
  /\ parseIn[2] = <<"1", "-">>

(***************************************************************************)
(* diff.rs: levenshtein and match_version_lists                            *)
(***************************************************************************)

Min2(a, b) == IF a < b THEN a ELSE b

\* One cell of the current row: curr[j] from curr[j - 1], prev[j], prev[j - 1].
RECURSIVE LevRowFrom(_, _, _, _, _, _)
LevRowFrom(from, to, i, prev, curr, j) ==
  IF j > Len(to) THEN curr
  ELSE LET cost == IF from[i] # to[j] THEN 1 ELSE 0
           cell == Min2(Min2(curr[j] + 1, prev[j + 1] + 1), prev[j] + cost)
       IN LevRowFrom(from, to, i, prev, Append(curr, cell), j + 1)

\* The rows of the table from row i on; a row is indexed from 1, so row[j + 1]
\* is the code's row[j].
RECURSIVE LevRows(_, _, _, _)
LevRows(from, to, i, prev) ==
  IF i > Len(from) THEN prev
  ELSE LevRows(from, to, i + 1, LevRowFrom(from, to, i, prev, <<i>>, 1))

\* A wrong first row: all zeros instead of 0..=to_len.
LevShorterFirstZeroRow(from, to) ==
  LevRows(from, to, 1, [j \in 1..(Len(to) + 1) |-> 0])[Len(to) + 1]

\* levenshtein(from, to), with `from` the shorter slice.
LevShorterFirst(from, to) ==
  LevRows(from, to, 1, [j \in 1..(Len(to) + 1) |-> j - 1])[Len(to) + 1]

\* fn levenshtein
levenshtein(from, to) ==
  IF Len(from) = 0 THEN Len(to)
  ELSE IF Len(to) = 0 THEN Len(from)
  ELSE IF Len(from) > Len(to) THEN LevShorterFirst(to, from)
  ELSE LevShorterFirst(from, to)

\* i32::MAX (diff.rs:370)
I32Max == 2147483647

\* i32::try_from(..).unwrap_or_else(|_| i32::MAX)
ClampI32(d) == IF d > I32Max THEN I32Max ELSE d

\* The matrix `distances`: the clamped distance between the components of
\* from[i] and of to[j].
Distances(from, to) ==
  LET from_components == [i \in 1..Len(from) |-> components(from[i].name)]
      to_components == [j \in 1..Len(to) |-> components(to[j].name)]
  IN [i \in 1..Len(from) |->
        [j \in 1..Len(to) |->
           ClampI32(levenshtein(from_components[i], to_components[j]))]]

RECURSIVE AssignmentCost(_, _, _)
AssignmentCost(distances, f, i) ==
  IF i > Len(distances) THEN 0
  ELSE distances[i][f[i]] + AssignmentCost(distances, f, i + 1)

\* A solver that returns some assignment of rows to columns of their own,
\* least or not.
KuhnMunkresAny(distances) ==
  { f \in [1..Len(distances) -> 1..Len(distances[1])] :
      \A i, k \in 1..Len(distances) : i # k => f[i] # f[k] }

\* kuhn_munkres_min on the matrix (rows <= columns): an assignment of every
\* row to a column of its own with the least total distance.  Which of
\* several least ones the solver returns is left open.
KuhnMunkresMin(distances) ==
  LET rows == 1..Len(distances)
      all == { f \in [rows -> 1..Len(distances[1])] :
                 \A i, k \in rows : i # k => f[i] # f[k] }
      cost == [f \in all |-> AssignmentCost(distances, f, 1)]
  IN { f \in all : \A g \in all : cost[f] <= cost[g] }

Left(a) == [kind |-> "Left", left |-> a]

Right(b) == [kind |-> "Right", right |-> b]

Both(a, b) == [kind |-> "Both", left |-> a, right |-> b]

\* A flip that leaves the pairing as it is.
FlipKept(p) == p

\* EitherOrBoth::flip
Flip(p) ==
  CASE p.kind = "Left" -> Right(p.left)
    [] p.kind = "Right" -> Left(p.right)
    [] p.kind = "Both" -> Both(p.right, p.left)

\* The arrangements of the set S in a sequence.
Arrangements(S) ==
  { f \in [1..Cardinality(S) -> S] : \A x \in S : \E i \in DOMAIN f : f[i] = x }

\* sort_unstable under Version::cmp of the versions of `to` at the indices R:
\* an arrangement of R without a descending neighbour pair (the order is not
\* a total order, so the sort fixes no more than that).
SortUnstable(to, R) ==
  { r \in Arrangements(R) :
      \A i \in 1..(Cardinality(R) - 1) :
        VersionCmp(to[r[i]], to[r[i + 1]]) # "Greater" }

\* match_version_lists once the inputs are in rows <= columns order: the
\* matched pairs in row order, then the unmatched columns sorted.
MatchRowsToColumns(from, to) ==
  UNION {
    { [i \in 1..Len(from) |-> Both(from[i], to[f[i]])]
        \o [k \in 1..Len(rest) |-> Right(to[rest[k]])] :
      rest \in SortUnstable(to, (1..Len(to)) \ { f[i] : i \in 1..Len(from) }) } :
    f \in KuhnMunkresMin(Distances(from, to)) }

\* pub fn match_version_lists: the pairings it may return.
match_version_lists(from, to) ==
  IF from = <<>> THEN { [j \in 1..Len(to) |-> Right(to[j])] }
  ELSE IF to = <<>> THEN { [i \in 1..Len(from) |-> Left(from[i])] }
  ELSE IF Len(from) = 1 /\ Len(to) = 1 /\ from[1] = to[1]
       THEN { <<Both(from[1], to[1])>> }
  ELSE IF Len(from) > Len(to)
       THEN { [k \in 1..Len(ps) |-> Flip(ps[k])] :
                ps \in MatchRowsToColumns(to, from) }
  ELSE MatchRowsToColumns(from, to)

(***************************************************************************)
(* diff.rs: generate_diffs_from_paths                                      *)
(***************************************************************************)

Changed(change) == [tag |-> "Changed", change |-> change]

Added == [tag |-> "Added"]

Removed == [tag |-> "Removed"]

\* A wrong reading of the pairings: an unmatched old version counted as an
\* upgrade and an unmatched new one as a downgrade.
PairingSignalUnmatchedSwapped(p) ==
  CASE p.kind = "Left" -> "upgrade"
    [] p.kind = "Right" -> "downgrade"
    [] p.kind = "Both" ->
         CASE VersionCmp(p.left, p.right) = "Less" -> "upgrade"
           [] VersionCmp(p.left, p.right) = "Greater" -> "downgrade"
           [] VersionCmp(p.left, p.right) = "Equal" -> "none"

\* The match in determine_change_status's loop: what one pairing signals.
PairingSignal(p) ==
  CASE p.kind = "Left" -> "downgrade"
    [] p.kind = "Right" -> "upgrade"
    [] p.kind = "Both" ->
         CASE VersionCmp(p.left, p.right) = "Less" -> "upgrade"
           [] VersionCmp(p.left, p.right) = "Greater" -> "downgrade"
           [] VersionCmp(p.left, p.right) = "Equal" -> "none"

\* determine_change_status's loop from pairing i on, with its break.
RECURSIVE ScanPairings(_, _, _, _)
ScanPairings(ps, i, saw_upgrade, saw_downgrade) ==
  IF i > Len(ps) \/ (saw_upgrade /\ saw_downgrade)
  THEN <<saw_upgrade, saw_downgrade>>
  ELSE ScanPairings(ps, i + 1,
                    saw_upgrade \/ PairingSignal(ps[i]) = "upgrade",
                    saw_downgrade \/ PairingSignal(ps[i]) = "downgrade")

\* fn determine_change_status, on the pairings match_version_lists returned.
determine_change_status(ps) ==
  LET saw == ScanPairings(ps, 1, FALSE, FALSE) IN
  CASE saw[1] /\ saw[2] -> Some(Changed("UpgradeDowngrade"))
    [] saw[1] /\ ~saw[2] -> Some(Changed("Upgraded"))
    [] ~saw[1] /\ saw[2] -> Some(Changed("Downgraded"))
    [] ~saw[1] /\ ~saw[2] -> None

\* Option::unwrap_or
UnwrapOr(opt, default) == IF opt.some THEN opt.val ELSE default

\* A wrong status selection: the tests for Added and Removed exchanged.
SelectStatusSidesSwapped(common_count, unique_old, unique_new, ps) ==
  IF unique_old = <<>> /\ unique_new = <<>> THEN None
  ELSE IF common_count = 0 /\ unique_new = <<>> THEN Some(Added)
  ELSE IF common_count = 0 /\ unique_old = <<>> THEN Some(Removed)
  ELSE IF unique_old = <<>> \/ unique_new = <<>>
       THEN Some(Changed("UpgradeDowngrade"))
  ELSE Some(UnwrapOr(determine_change_status(ps), Changed("UpgradeDowngrade")))

\* A wrong status selection: no bucket is skipped.
SelectStatusNoSkip(common_count, unique_old, unique_new, ps) ==
  IF common_count = 0 /\ unique_old = <<>> THEN Some(Added)
  ELSE IF common_count = 0 /\ unique_new = <<>> THEN Some(Removed)
  ELSE IF unique_old = <<>> \/ unique_new = <<>>
       THEN Some(Changed("UpgradeDowngrade"))
  ELSE Some(UnwrapOr(determine_change_status(ps), Changed("UpgradeDowngrade")))

\* A wrong status selection: the common versions are not looked at.
SelectStatusCommonIgnored(common_count, unique_old, unique_new, ps) ==
  IF unique_old = <<>> /\ unique_new = <<>> THEN None
  ELSE IF unique_old = <<>> THEN Some(Added)
  ELSE IF unique_new = <<>> THEN Some(Removed)
  ELSE Some(UnwrapOr(determine_change_status(ps), Changed("UpgradeDowngrade")))

\* The status selection of generate_diffs_from_paths (None: continue).
SelectStatus(common_count, unique_old, unique_new, ps) ==
  IF unique_old = <<>> /\ unique_new = <<>> THEN None
  ELSE IF common_count = 0 /\ unique_old = <<>> THEN Some(Added)
  ELSE IF common_count = 0 /\ unique_new = <<>> THEN Some(Removed)
  ELSE IF unique_old = <<>> \/ unique_new = <<>>
       THEN Some(Changed("UpgradeDowngrade"))
  ELSE Some(UnwrapOr(determine_change_status(ps), Changed("UpgradeDowngrade")))

\* write_size_diff: the size delta (Size holds a signed byte count).
SizeDiff(size_old, size_new) == size_new - size_old

\* fn count_versions: the HashMap from version to its number of occurrences.
count_versions(versions) ==
  [v \in { versions[i] : i \in DOMAIN versions } |->
     Cardinality({ i \in DOMAIN versions : versions[i] = v })]

\* A wrong difference: the versions common to both sides are kept.
DifferenceKeepingCommon(a, b) == a

\* HashSet::difference
Difference(a, b) == a \ b

\* The most store paths (old and new together) the map is built from.
MaxPaths == 4

Names == {"a", "b"}

\* "1.0", "1.1", "1-0", "1.0-pre"
DiffVersions ==
  << Version(<<"1", ".", "0">>), Version(<<"1", ".", "1">>),
     Version(<<"1", "-", "0">>),
     Version(<<"1", ".", "0", "-", "p", "r", "e">>) >>

\* The vectors of k versions.  count_versions is all that reads a vector and
\* it forgets the order, so each multiset is drawn in one order only.
VersionVecs(k) ==
  { [i \in 1..k |-> DiffVersions[ix[i]]] :
      ix \in { f \in [1..k -> 1..Len(DiffVersions)] :
                 \A i \in 1..(k - 1) : f[i] <= f[i + 1] } }

\* The (old_versions, new_versions) pairs of n versions in all.
BucketsOfSize(n) ==
  UNION { VersionVecs(i) \X VersionVecs(n - i) : i \in 0..n }

\* The maps with na versions under name "a" and nb under "b"; a name
\* without a version has no entry.
MapsOfSizes(na, nb) ==
  { [n \in { m \in Names : (IF m = "a" THEN na ELSE nb) > 0 } |->
       IF n = "a" THEN x ELSE y] :
    x \in BucketsOfSize(na), y \in BucketsOfSize(nb) }

InitDiff ==
  /\ \E na \in 0..MaxPaths : \E nb \in 0..(MaxPaths - na) :
       paths \in MapsOfSizes(na, nb)
  /\ todo = DOMAIN paths
  /\ result = <<>>
  /\ matched = [n \in {} |-> <<>>]
  /\ IdleCmp /\ IdleVer /\ IdlePieces /\ IdleParse /\ IdleMore

\* One pass of the loop of generate_diffs_from_paths, for the entry `name`;
\* the HashMap and the HashSets are visited in any order.
GenerateDiff(name) ==
  /\ name \in todo
  /\ LET old_counts == count_versions(paths[name][1])
         new_counts == count_versions(paths[name][2])
         old_set == DOMAIN old_counts
         new_set == DOMAIN new_counts
         common_count == Cardinality(old_set \cap new_set)
     IN \E unique_old \in Arrangements(Difference(old_set, new_set)) :
        \E unique_new \in Arrangements(Difference(new_set, old_set)) :
        \E ps \in match_version_lists(unique_old, unique_new) :
          LET status ==
                SelectStatus(common_count, unique_old, unique_new, ps)
          IN /\ result' =
                  IF status.some
                  THEN Append(result,
                              [name |-> name,
                               old |-> unique_old,
                               new |-> unique_new,
                               status |-> status.val,
                               selection |-> "Unselected",
                               has_common_versions |-> common_count > 0])
                  ELSE result
             /\ matched' =
                  [n \in (DOMAIN matched) \cup {name} |->
                     IF n = name THEN ps ELSE matched[n]]
  /\ todo' = todo \ {name}
  /\ UNCHANGED <<paths, cmpVars, verVars, pieceVars, parseVars, moreVars>>

Init == InitDiff

Next == \E name \in Names : GenerateDiff(name)

Spec == Init /\ [][Next]_vars

(***************************************************************************)
(* Properties of generate_diffs_from_paths                                 *)
(***************************************************************************)

Range(seq) == { seq[i] : i \in DOMAIN seq }

\* The versions of one side of a bucket of the input map.
SideVersions(name, side) == Range(paths[name][side])

\* A pairing that speaks for an upgrade: an unmatched new version, or a
\* matched pair with old < new.
UpgradeSignal(p) ==
  \/ p.kind = "Right"
  \/ p.kind = "Both" /\ VersionCmp(p.left, p.right) = "Less"

\* A pairing that speaks for a downgrade: an unmatched old version, or a
\* matched pair with old > new.
DowngradeSignal(p) ==
  \/ p.kind = "Left"
  \/ p.kind = "Both" /\ VersionCmp(p.left, p.right) = "Greater"

HasRecord(old, new, status) ==
  \E i \in DOMAIN result :
    /\ result[i].old = old
    /\ result[i].new = new
    /\ result[i].status = status

\* C1: a record whose old and new are both non-empty is Changed(Upgraded)
\* when its pairings give only upgrade signals, Changed(Downgraded) when they
\* give only downgrade signals and Changed(UpgradeDowngrade) when they give
\* both; old 1.0 / new 1.0-pre is Downgraded and old 1.0 / new 1.1 Upgraded.
C1_StatusFollowsSignals ==
  \A i \in DOMAIN result :
    LET r == result[i]
        ps == matched[r.name]
        up == \E j \in DOMAIN ps : UpgradeSignal(ps[j])
        down == \E j \in DOMAIN ps : DowngradeSignal(ps[j])
    IN (r.old # <<>> /\ r.new # <<>>) =>
         /\ (up /\ ~down) => r.status = Changed("Upgraded")
         /\ (down /\ ~up) => r.status = Changed("Downgraded")
         /\ (up /\ down) => r.status = Changed("UpgradeDowngrade")
         /\ (r.old = <<DiffVersions[1]>> /\ r.new = <<DiffVersions[4]>>)
              => r.status = Changed("Downgraded")
         /\ (r.old = <<DiffVersions[1]>> /\ r.new = <<DiffVersions[2]>>)
              => r.status = Changed("Upgraded")

\* Both of C1's examples classified: one bucket Downgraded by a matched pair
\* with old > new, the other Upgraded by a matched pair with old < new.
C1_Witness ==
  /\ HasRecord(<<DiffVersions[1]>>, <<DiffVersions[4]>>,
               Changed("Downgraded"))
  /\ HasRecord(<<DiffVersions[1]>>, <<DiffVersions[2]>>,
               Changed("Upgraded"))

\* C9: in every record, Added implies old is empty, Removed implies new is
\* empty, Changed implies old or new is non-empty, and old and new are never
\* both empty.
C9_StatusMatchesSides ==
  \A i \in DOMAIN result :
    LET r == result[i] IN
    /\ r.status = Added => r.old = <<>>
    /\ r.status = Removed => r.new = <<>>
    /\ r.status.tag = "Changed" => (r.old # <<>> \/ r.new # <<>>)
    /\ ~(r.old = <<>> /\ r.new = <<>>)

\* An Added and a Removed record side by side.
C9_Witness ==
  /\ \E i \in DOMAIN result :
       result[i].status = Added /\ result[i].new # <<>>
  /\ \E i \in DOMAIN result :
       result[i].status = Removed /\ result[i].old # <<>>

\* C25: in a record with one of old / new empty, the status is Added exactly
\* when old is empty and the bucket has no common version, Removed exactly
\* when new is empty and it has none, and Changed(UpgradeDowngrade) when it
\* has one; a bucket whose old side is empty gives an Added record and one
\* whose new side is empty a Removed record.
C25_OneSidedStatus ==
  /\ \A i \in DOMAIN result :
       LET r == result[i]
           o == SideVersions(r.name, 1)
           n == SideVersions(r.name, 2)
           common == o \cap n # {}
       IN (r.old = <<>> \/ r.new = <<>>) =>
            /\ r.status = Added <=> (r.old = <<>> /\ ~common)
            /\ r.status = Removed <=> (r.new = <<>> /\ ~common)
            /\ common => r.status = Changed("UpgradeDowngrade")
  /\ \A name \in (DOMAIN paths) \ todo :
       LET o == SideVersions(name, 1)
           n == SideVersions(name, 2)
       IN /\ o = {} => \E i \in DOMAIN result :
                          result[i].name = name /\ result[i].status = Added
          /\ n = {} => \E i \in DOMAIN result :
                          result[i].name = name /\ result[i].status = Removed

\* One bucket lost a version and kept another, a second bucket is new.
C25_Witness ==
  /\ \E i \in DOMAIN result :
       /\ result[i].has_common_versions
       /\ result[i].old # <<>> /\ result[i].new = <<>>
       /\ result[i].status = Changed("UpgradeDowngrade")
  /\ \E i \in DOMAIN result :
       /\ SideVersions(result[i].name, 1) = {}
       /\ result[i].status = Added

\* C10: in every record, old holds exactly the versions only on the old side
\* and new exactly those only on the new side, each once, so that old and new
\* are disjoint; has_common_versions is TRUE iff some version is on both
\* sides of the bucket.
C10_UniqueSides ==
  \A i \in DOMAIN result :
    LET r == result[i]
        o == SideVersions(r.name, 1)
        n == SideVersions(r.name, 2)
    IN /\ Range(r.old) = o \ n
       /\ Range(r.new) = n \ o
       /\ Len(r.old) = Cardinality(o \ n)
       /\ Len(r.new) = Cardinality(n \ o)
       /\ Range(r.old) \cap Range(r.new) = {}
       /\ r.has_common_versions <=> (o \cap n # {})

\* Old [1.0-pre, 1.0] against new [1.0, 1.1]: the common 1.0 is removed.
C10_Witness ==
  \E i \in DOMAIN result :
    /\ result[i].has_common_versions
    /\ result[i].old = <<DiffVersions[4]>>
    /\ result[i].new = <<DiffVersions[2]>>
    /\ result[i].status = Changed("Upgraded")

\* The bucket `name` has been visited and neither of its pairings signals an
\* upgrade or a downgrade, although both sides hold a version of their own.
NoSignalBucket(name) ==
  /\ name \in DOMAIN matched
  /\ SideVersions(name, 1) \ SideVersions(name, 2) # {}
  /\ SideVersions(name, 2) \ SideVersions(name, 1) # {}
  /\ \A j \in DOMAIN matched[name] :
       /\ ~UpgradeSignal(matched[name][j])
       /\ ~DowngradeSignal(matched[name][j])

\* C11: when unique_old and unique_new are both non-empty and every pairing
\* is a matched pair of versions that compare Equal, no record is emitted for
\* the package.
C11_NoSignalDropsBucket ==
  \A name \in Names :
    NoSignalBucket(name) =>
      ~(\E i \in DOMAIN result : result[i].name = name)

\* usize::to_string, for the amounts that occur here.
RECURSIVE UsizeToString(_)
UsizeToString(k) ==
  IF k < 10 THEN <<Digits10[k + 1]>>
  ELSE UsizeToString(k \div 10) \o <<Digits10[(k % 10) + 1]>>

\* impl fmt::Display for Version
Display(v) ==
  IF v.amount > 1 THEN v.name \o <<" ", "×">> \o UsizeToString(v.amount)
  ELSE v.name

\* The number of times a version string occurs in a vector.
Occurrences(versions, name) ==
  Cardinality({ j \in DOMAIN versions : versions[j].name = name })

\* C12: a version that occurs k > 1 times on one side of a bucket and not on
\* the other is carried by the record with multiplicity k and so is
\* displayed as the version followed by " ×k".
C12_MultiplicityCarried ==
  \A i \in DOMAIN result :
    LET r == result[i] IN
    /\ \A j \in DOMAIN r.old :
         LET k == Occurrences(paths[r.name][1], r.old[j].name) IN
         k > 1 =>
           /\ r.old[j].amount = k
           /\ Display(r.old[j]) = r.old[j].name \o <<" ", "×">> \o UsizeToString(k)
    /\ \A j \in DOMAIN r.new :
         LET k == Occurrences(paths[r.name][2], r.new[j].name) IN
         k > 1 =>
           /\ r.new[j].amount = k
           /\ Display(r.new[j]) = r.new[j].name \o <<" ", "×">> \o UsizeToString(k)

(***************************************************************************)
(* match_version_lists on its own                                          *)
(***************************************************************************)

\* The most versions in `from` and `to` together.
MaxMatchLen == 4

\* The vectors of k versions, in every order and with repetitions.
VersionSeqs(k) == { [i \in 1..k |-> DiffVersions[ix[i]]] :
                      ix \in [1..k -> 1..Len(DiffVersions)] }

InitMatch ==
  /\ \E n \in 0..MaxMatchLen : \E k \in 0..n :
       \E from \in VersionSeqs(k) : \E to \in VersionSeqs(n - k) :
         matchIn = <<from, to>>
  /\ matchOut = None
  /\ IdleCmp /\ IdleVer /\ IdlePieces /\ IdleParse /\ IdleDiff /\ IdleRuns
  /\ IdleReport /\ IdleCollect /\ IdleStore
  /\ IdleLate

\* One call of match_version_lists(from, to).
MatchVersionLists ==
  /\ Len(matchIn) = 2
  /\ matchOut = None
  /\ \E ps \in match_version_lists(matchIn[1], matchIn[2]) :
       matchOut' = Some(ps)
  /\ UNCHANGED <<matchIn, runs, reportVars, collectVars, storeVars, cmpVars,
                 verVars, pieceVars, parseVars, diffVars,
                 lateVars>>

NextMatch == MatchVersionLists

SpecMatch == InitMatch /\ [][NextMatch]_vars

\* The number of places of a sequence that hold x.
CountIn(seq, x) == Cardinality({ i \in DOMAIN seq : seq[i] = x })

\* The pairings that hold a left, and those that hold a right element.
WithLeft(ps) == SelectSeq(ps, LAMBDA p : p.kind \in {"Left", "Both"})

WithRight(ps) == SelectSeq(ps, LAMBDA p : p.kind \in {"Right", "Both"})

Boths(ps) == SelectSeq(ps, LAMBDA p : p.kind = "Both")

\* C13: the pairings hold every element of `from` exactly once on the left
\* and every element of `to` exactly once on the right; the number of Both
\* pairings is the smaller and the number of pairings the larger of the two
\* lengths.
C13_PairingIsPermutation ==
  matchOut.some =>
    LET from == matchIn[1]
        to == matchIn[2]
        ps == matchOut.val
        lefts == [i \in 1..Len(WithLeft(ps)) |-> WithLeft(ps)[i].left]
        rights == [i \in 1..Len(WithRight(ps)) |-> WithRight(ps)[i].right]
    IN /\ Len(lefts) = Len(from)
       /\ Len(rights) = Len(to)
       /\ \A v \in Range(from) \cup Range(lefts) :
            CountIn(lefts, v) = CountIn(from, v)
       /\ \A v \in Range(to) \cup Range(rights) :
            CountIn(rights, v) = CountIn(to, v)
       /\ Len(Boths(ps)) = Min2(Len(from), Len(to))
       /\ Len(ps) = Len(from) + Len(to) - Min2(Len(from), Len(to))

\* The swapped case with a repeated version: three old against one new.
C13_Witness ==
  /\ matchOut.some
  /\ Len(matchIn[1]) = 3 /\ Len(matchIn[2]) = 1
  /\ matchIn[1][1] = matchIn[1][3]
  /\ Len(Boths(matchOut.val)) = 1
  /\ \E i \in DOMAIN matchOut.val : matchOut.val[i].kind = "Left"

\* The distance the matching minimises: levenshtein over the components.
PairDistance(a, b) == levenshtein(components(a.name), components(b.name))

RECURSIVE SumOver(_, _)
SumOver(f, S) ==
  IF S = {} THEN 0
  ELSE LET x == CHOOSE y \in S : TRUE IN f[x] + SumOver(f, S \ {x})

\* C14: the summed distance of the Both pairings is at most that of every
\* injective assignment of the shorter list into the longer one.
C14_MinimumCostAssignment ==
  matchOut.some =>
    LET from == matchIn[1]
        to == matchIn[2]
        short == IF Len(from) > Len(to) THEN to ELSE from
        long == IF Len(from) > Len(to) THEN from ELSE to
        boths == Boths(matchOut.val)
        paid == SumOver([i \in DOMAIN boths |->
                           PairDistance(boths[i].left, boths[i].right)],
                        DOMAIN boths)
    IN \A g \in [DOMAIN short -> DOMAIN long] :
         (\A i, k \in DOMAIN short : i # k => g[i] # g[k]) =>
           paid <= SumOver([i \in DOMAIN short |->
                              PairDistance(short[i], long[g[i]])],
                           DOMAIN short)

\* Two against two where one of the two assignments costs more: 1.0 and
\* 1.0-pre against 1.1 and 1.0-pre.
C14_Witness ==
  /\ matchOut.some
  /\ matchIn[1] = <<DiffVersions[1], DiffVersions[4]>>
  /\ matchIn[2] = <<DiffVersions[4], DiffVersions[2]>>
  /\ matchOut.val = <<Both(DiffVersions[1], DiffVersions[2]),
                      Both(DiffVersions[4], DiffVersions[4])>>

(***************************************************************************)
(* Two runs over the same map                                              *)
(***************************************************************************)

\* The loop of fmt_version_diffs over one pairing sequence: the version
\* names written to the old and to the new string, in the order written.  A
\* matched pair of equal versions writes nothing.
FmtVersionLists(ps) ==
  LET written == SelectSeq(ps, LAMBDA p : ~(p.kind = "Both" /\ p.left = p.right))
      olds == WithLeft(written)
      news == WithRight(written)
  IN [old |-> [i \in 1..Len(olds) |-> olds[i].left.name],
      new |-> [i \in 1..Len(news) |-> news[i].right.name]]

\* fn fmt_version_diffs: what it may write for a record's old and new.
fmt_version_diffs(old_versions, new_versions, has_common_versions) ==
  { [old |-> FmtVersionLists(ps).old,
     new |-> FmtVersionLists(ps).new,
     others |-> has_common_versions] :
    ps \in match_version_lists(old_versions, new_versions) }

\* What one run may report for a bucket: nothing (None) when the loop of
\* generate_diffs_from_paths skips it, else the record's status and the
\* version lists render_diffs writes for it.
BucketReports(old_versions, new_versions) ==
  LET old_set == DOMAIN count_versions(old_versions)
      new_set == DOMAIN count_versions(new_versions)
      common_count == Cardinality(old_set \cap new_set)
  IN UNION { UNION { UNION {
       LET status == SelectStatus(common_count, unique_old, unique_new, ps)
       IN IF status.some
          THEN { Some([status |-> status.val, versions |-> w]) :
                 w \in fmt_version_diffs(unique_old, unique_new,
                                         common_count > 0) }
          ELSE { None } :
       ps \in match_version_lists(unique_old, unique_new) } :
       unique_new \in Arrangements(Difference(new_set, old_set)) } :
       unique_old \in Arrangements(Difference(old_set, new_set)) }

\* The most versions of the one package the two runs are given.
MaxRunVersions == 4

InitRuns ==
  /\ \E n \in 1..MaxRunVersions : \E bucket \in BucketsOfSize(n) :
       paths = [name \in {"a"} |-> bucket]
  /\ runs = <<>>
  /\ todo = {} /\ result = <<>> /\ matched = <<>>
  /\ IdleCmp /\ IdleVer /\ IdlePieces /\ IdleParse /\ IdleMatch /\ IdleReport
  /\ IdleCollect /\ IdleStore
  /\ IdleLate

\* One run of generate_diffs_from_paths and render_diffs over the map.
Run ==
  /\ Len(runs) < 2
  /\ \E report \in BucketReports(paths["a"][1], paths["a"][2]) :
       runs' = Append(runs, report)
  /\ UNCHANGED <<cmpVars, verVars, pieceVars, parseVars, diffVars, matchVars,
                 reportVars, collectVars, storeVars,
                 lateVars>>

NextRuns == Run

SpecRuns == InitRuns /\ [][NextRuns]_vars

\* C15: two runs over the same inputs report the same status and the same
\* order of versions in each version list, whatever order the hash sets are
\* visited in.
C15_RunsAgree ==
  Len(runs) = 2 => runs[1] = runs[2]

(***************************************************************************)
(* diff.rs: write_packages_diff after generate_diffs_from_paths            *)
(***************************************************************************)

\* A comparator that takes every status for equal, so that the sort goes by
\* name alone.
DiffStatusCmpAllEqual(self, other) == "Equal"

\* impl cmp::Ord for DiffStatus
DiffStatusCmp(self, other) ==
  CASE self.tag = other.tag -> "Equal"
    [] self.tag = "Changed" /\ other.tag # "Changed" -> "Less"
    [] self.tag # "Changed" /\ other.tag = "Changed" -> "Greater"
    [] self.tag = "Added" /\ other.tag = "Removed" -> "Less"
    [] self.tag = "Removed" /\ other.tag = "Added" -> "Greater"

\* The closure given to sort_by: status, then name.
DiffCmp(a, b) ==
  IF DiffStatusCmp(a.status, b.status) # "Equal"
  THEN DiffStatusCmp(a.status, b.status)
  ELSE StrCmp(a.name, b.name)

\* slice::sort_by, a stable sort: the arrangement in which no element is
\* before a lesser one and equal elements keep their order.
SortBy(seq) ==
  LET perms == { p \in [DOMAIN seq -> DOMAIN seq] :
                   \A i, j \in DOMAIN seq : i # j => p[i] # p[j] }
      p == CHOOSE q \in perms :
             \A i, j \in DOMAIN seq :
               i < j =>
                 /\ DiffCmp(seq[q[i]], seq[q[j]]) # "Greater"
                 /\ DiffCmp(seq[q[i]], seq[q[j]]) = "Equal" => q[i] < q[j]
  IN [i \in DOMAIN seq |-> seq[p[i]]]

\* DerivationSelectionStatus::from_names
from_names(name, old, new) ==
  CASE name \in old /\ name \in new -> "Selected"
    [] name \in old /\ name \notin new -> "NewlyUnselected"
    [] name \notin old /\ name \in new -> "NewlySelected"
    [] name \notin old /\ name \notin new -> "Unselected"

\* fn add_selection_status
add_selection_status(ds, system_paths_old, system_paths_new) ==
  [i \in DOMAIN ds |->
     [ds[i] EXCEPT !.selection =
        from_names(ds[i].name, system_paths_old, system_paths_new)]]

\* DiffStatus::char
StatusChar(status) ==
  CASE status = Changed("UpgradeDowngrade") -> "C"
    [] status = Changed("Upgraded") -> "U"
    [] status = Changed("Downgraded") -> "D"
    [] status = Added -> "A"
    [] status = Removed -> "R"

\* DerivationSelectionStatus::char
SelectionChar(selection) ==
  CASE selection = "Selected" -> "*"
    [] selection = "NewlySelected" -> "+"
    [] selection = "Unselected" -> "."
    [] selection = "NewlyUnselected" -> "-"

\* The section header of a status.
Header(status) ==
  CASE status.tag = "Changed" -> "CHANGED"
    [] status.tag = "Added" -> "ADDED"
    [] status.tag = "Removed" -> "REMOVED"

\* The most records handed to the sort.
MaxDiffs == 3

\* "a", "ab", "b", "ba"
ReportNames == {<<"a">>, <<"a", "b">>, <<"b">>, <<"b", "a">>}

\* One record per status, as generate_diffs_from_paths builds them.
DiffSamples ==
  { [old |-> <<>>, new |-> <<DiffVersions[1]>>, status |-> Added,
     has_common_versions |-> FALSE],
    [old |-> <<DiffVersions[1]>>, new |-> <<>>, status |-> Removed,
     has_common_versions |-> FALSE],
    [old |-> <<DiffVersions[1]>>, new |-> <<DiffVersions[2]>>,
     status |-> Changed("Upgraded"), has_common_versions |-> FALSE],
    [old |-> <<DiffVersions[2]>>, new |-> <<DiffVersions[1]>>,
     status |-> Changed("Downgraded"), has_common_versions |-> FALSE],
    [old |-> <<>>, new |-> <<DiffVersions[2]>>,
     status |-> Changed("UpgradeDowngrade"), has_common_versions |-> TRUE] }

\* The vectors generate_diffs_from_paths may return: up to MaxDiffs records
\* under names of their own, in the order the map was visited in.
DiffVecs ==
  UNION { { [i \in 1..k |->
               [name |-> names[i], old |-> samples[i].old,
                new |-> samples[i].new, status |-> samples[i].status,
                selection |-> "Unselected",
                has_common_versions |-> samples[i].has_common_versions]] :
            names \in { f \in [1..k -> ReportNames] :
                          \A i, j \in 1..k : i # j => f[i] # f[j] },
            samples \in [1..k -> DiffSamples] } :
          k \in 0..MaxDiffs }

InitReport ==
  /\ diffs \in DiffVecs
  /\ sys_old_set \in SUBSET {<<"a">>}
  /\ sys_new_set \in SUBSET {<<"a">>}
  /\ next_diff = 0
  /\ last_status = None
  /\ output = <<>>
  /\ IdleCmp /\ IdleVer /\ IdlePieces /\ IdleParse /\ IdleDiff
  /\ IdleMatch /\ IdleRuns /\ IdleCollect /\ IdleStore
  /\ IdleLate

\* write_packages_diff from add_selection_status to the sort.
SortDiffs ==
  /\ next_diff = 0
  /\ diffs' = SortBy(add_selection_status(diffs, sys_old_set, sys_new_set))
  /\ next_diff' = 1
  /\ UNCHANGED <<sys_old_set, sys_new_set, last_status, output>>
  /\ UNCHANGED <<cmpVars, verVars, pieceVars, parseVars, diffVars, matchVars,
                 runs, collectVars, storeVars,
                 lateVars>>

\* One pass of the loop of render_diffs.
RenderDiff ==
  /\ next_diff \in 1..Len(diffs)
  /\ LET diff == diffs[next_diff]
         new_section ==
           \/ ~last_status.some
           \/ DiffStatusCmp(last_status.val, diff.status) # "Equal"
         blank == IF new_section /\ last_status.some
                  THEN <<[kind |-> "blank"]>> ELSE <<>>
         header == IF new_section
                   THEN <<[kind |-> "header", text |-> Header(diff.status)]>>
                   ELSE <<>>
     IN /\ \E w \in fmt_version_diffs(diff.old, diff.new,
                                      diff.has_common_versions) :
             output' = output \o blank \o header \o
                       <<[kind |-> "entry",
                          status_char |-> StatusChar(diff.status),
                          sel_char |-> SelectionChar(diff.selection),
                          name |-> diff.name,
                          versions |-> w]>>
        /\ last_status' = IF new_section THEN Some(diff.status)
                          ELSE last_status
  /\ next_diff' = next_diff + 1
  /\ UNCHANGED <<sys_old_set, sys_new_set, diffs>>
  /\ UNCHANGED <<cmpVars, verVars, pieceVars, parseVars, diffVars, matchVars,
                 runs, collectVars, storeVars,
                 lateVars>>

NextReport == SortDiffs \/ RenderDiff

SpecReport == InitReport /\ [][NextReport]_vars

\* The place of a header in the order CHANGED, ADDED, REMOVED.
HeaderRank(text) ==
  CASE text = "CHANGED" -> 1 [] text = "ADDED" -> 2 [] text = "REMOVED" -> 3

\* The header an entry belongs under, by its status character.
SectionOfChar(c) ==
  CASE c \in {"C", "U", "D"} -> "CHANGED"
    [] c = "A" -> "ADDED"
    [] c = "R" -> "REMOVED"

\* C16: the headers written are in the order CHANGED, ADDED, REMOVED, each at
\* most once and each followed by a record of its section; every record is
\* under the header of its status, and within a section the names are
\* strictly increasing.
C16_SectionsInOrder ==
  /\ \A i, j \in DOMAIN output :
       (i < j /\ output[i].kind = "header" /\ output[j].kind = "header")
         => HeaderRank(output[i].text) < HeaderRank(output[j].text)
  /\ \A i \in DOMAIN output :
       output[i].kind = "header" =>
         /\ i < Len(output)
         /\ output[i + 1].kind = "entry"
         /\ SectionOfChar(output[i + 1].status_char) = output[i].text
  /\ \A i \in DOMAIN output :
       output[i].kind = "entry" =>
         /\ i > 1
         /\ output[i - 1].kind = "entry" =>
              /\ SectionOfChar(output[i - 1].status_char)
                   = SectionOfChar(output[i].status_char)
              /\ StrCmp(output[i - 1].name, output[i].name) = "Less"
  /\ \A i \in DOMAIN output : output[i].kind = "blank" =>
       i > 1 /\ i < Len(output) /\ output[i + 1].kind = "header"

\* Three records handed over in descending name order: two Changed ones of
\* different variants end up under one CHANGED header in ascending name
\* order, followed by an ADDED section.
C16_Witness ==
  /\ next_diff = 4
  /\ Len(output) = 6
  /\ output[1] = [kind |-> "header", text |-> "CHANGED"]
  /\ output[2].kind = "entry" /\ output[2].name = <<"a", "b">>
  /\ output[2].status_char = "D"
  /\ output[3].kind = "entry" /\ output[3].name = <<"b">>
  /\ output[3].status_char = "U"
  /\ output[4] = [kind |-> "blank"]
  /\ output[5] = [kind |-> "header", text |-> "ADDED"]
  /\ output[6].kind = "entry" /\ output[6].name = <<"a">>
  /\ output[6].sel_char = "*"

\* The closure sizes the size-delta part of C17 is checked for.
MaxSize == 3

MaxCollectPaths == 3

\* The 32 hash characters.
HashChars == [i \in 1..(HashDashPos - StoreDirLen) |-> "0"]

\* Store paths of the required shape: with a version, without one, and with
\* nothing after the hash's '-' (which the regex does not match).
ShapedPaths ==
  { StorePathOf(<<"a">>, <<"1">>),
    StoreDir \o HashChars \o <<"-", "b">>,
    StoreDir \o HashChars \o <<"-">> }

\* Store paths that lack the shape: shorter than 44 bytes ("/nix/store/ab"),
\* and with another byte than '-' at position 43.
ShapelessPaths ==
  { StoreDir \o <<"a", "b">>,
    StoreDir \o HashChars \o <<"0", "a", "-", "1">> }

PathSeqs(k) == [1..k -> ShapedPaths \cup ShapelessPaths]

InitCollect ==
  /\ \E n \in 0..MaxCollectPaths : \E k \in 0..n :
       old_iter \in PathSeqs(k) /\ new_iter \in PathSeqs(n - k)
  /\ collected = <<>>
  /\ collect_state = "running"
  /\ IdleCmp /\ IdleVer /\ IdlePieces /\ IdleParse /\ IdleDiff
  /\ IdleMatch /\ IdleRuns /\ IdleReport /\ IdleStore
  /\ IdleLate

\* "<none>", the version of a path without one.
NoneVersion == Version(<<"<", "n", "o", "n", "e", ">">>)

\* paths.entry(name).or_default().{0,1}.push(version): side 1 is old.
PushVersion(map, name, side, version) ==
  LET entry == IF name \in DOMAIN map THEN map[name] ELSE <<<<>>, <<>>>>
      pushed == [entry EXCEPT ![side] = Append(entry[side], version)]
  IN [n \in (DOMAIN map) \cup {name} |-> IF n = name THEN pushed ELSE map[n]]

\* The body of either loop of collect_path_versions for one path.
CollectPath(path, side) ==
  LET parsed == parse_name_and_version(path) IN
  CASE parsed.kind = "Panic" ->
         /\ collect_state' = "panicked"
         /\ collected' = collected
    [] parsed.kind = "Err" ->
         /\ collect_state' = collect_state
         /\ collected' = collected
    [] parsed.kind = "Ok" ->
         /\ collect_state' = collect_state
         /\ collected' =
              PushVersion(collected, parsed.name, side,
                          IF parsed.version.some THEN parsed.version.val
                          ELSE NoneVersion)

\* One pass of the loop over `old`.
CollectOld ==
  /\ collect_state = "running"
  /\ old_iter # <<>>
  /\ CollectPath(Head(old_iter), 1)
  /\ old_iter' = Tail(old_iter)
  /\ UNCHANGED <<new_iter, cmpVars, verVars, pieceVars, parseVars, diffVars,
                 matchVars, runs, reportVars, storeVars,
                 lateVars>>

\* One pass of the loop over `new`.
CollectNew ==
  /\ collect_state = "running"
  /\ old_iter = <<>>
  /\ new_iter # <<>>
  /\ CollectPath(Head(new_iter), 2)
  /\ new_iter' = Tail(new_iter)
  /\ UNCHANGED <<old_iter, cmpVars, verVars, pieceVars, parseVars, diffVars,
                 matchVars, runs, reportVars, storeVars,
                 lateVars>>

\* Both loops are through: the map is returned.
CollectReturn ==
  /\ collect_state = "running"
  /\ old_iter = <<>> /\ new_iter = <<>>
  /\ collect_state' = "returned"
  /\ UNCHANGED <<old_iter, new_iter, collected, cmpVars, verVars, pieceVars,
                 parseVars, diffVars, matchVars, runs, reportVars, storeVars,
                 lateVars>>

NextCollect == CollectOld \/ CollectNew \/ CollectReturn

SpecCollect == InitCollect /\ [][NextCollect]_vars

\* C18: a path that lacks the shape is skipped and the paths after it are
\* still read; the run never panics.
C18_ShapelessSkipped ==
  /\ collect_state # "panicked"
  /\ collect_state = "returned" => (old_iter = <<>> /\ new_iter = <<>>)

(***************************************************************************)
(* store.rs: CombinedStoreFrontend                                         *)
(***************************************************************************)

\* The most members of the combined frontend.
MaxFrontends == 3

QueryKinds == {"query_closure_size", "query_system_derivations",
               "query_dependents", "query_dependency_graph"}

\* A fallback that never skips a member.
SkipsNever(frontend) == FALSE

\* fallback_query: `if !frontend.connected() { continue; }`, with
\* DBConnection::connected, conn.is_some().
Skips(frontend) == ~frontend.conn

\* The loop of fallback_query from member i on.  answers[i] tells whether
\* member i's query succeeds; calls are the members queried so far, errs the
\* chain of their errors (the latest outermost).
RECURSIVE FallbackLoop(_, _, _, _, _)
FallbackLoop(fs, answers, i, calls, errs) ==
  IF i > Len(fs) THEN [ok |-> FALSE, calls |-> calls, errors |-> errs]
  ELSE IF Skips(fs[i]) THEN FallbackLoop(fs, answers, i + 1, calls, errs)
  ELSE IF answers[i] THEN [ok |-> TRUE, calls |-> Append(calls, i), from |-> i]
  ELSE FallbackLoop(fs, answers, i + 1, Append(calls, i), <<i>> \o errs)

\* fn fallback_query
fallback_query(fs, answers) == FallbackLoop(fs, answers, 1, <<>>, <<>>)

\* DBConnection::connect: conn is set when the database opens and left as it
\* is when it does not.
MemberConnect(frontend, opens) ==
  IF opens THEN [frontend EXCEPT !.conn = TRUE] ELSE frontend

\* The loop of connect: every member's connect() is called.
ConnectAll(fs, opens) == [i \in DOMAIN fs |-> MemberConnect(fs[i], opens[i])]

\* A connect that reports success whatever the members say.
AnySucceededAlways(fs) == TRUE

\* connect: `self.frontends.iter().any(|f| f.connected())`
AnySucceeded(fs) == \E i \in DOMAIN fs : fs[i].conn

\* DBConnection::close on a connected member: conn is taken, and put back
\* when closing fails.
MemberClose(frontend, closes) ==
  IF frontend.conn /\ closes THEN [frontend EXCEPT !.conn = FALSE]
  ELSE frontend

InitStore ==
  /\ \E n \in 0..MaxFrontends : frontends = [i \in 1..n |-> [conn |-> FALSE]]
  /\ phase = "new"
  /\ last_call = None
  /\ IdleCmp /\ IdleVer /\ IdlePieces /\ IdleParse /\ IdleDiff
  /\ IdleMatch /\ IdleRuns /\ IdleReport /\ IdleCollect
  /\ IdleLate

\* CombinedStoreFrontend::connect, called once on the newly built frontend.
Connect ==
  /\ phase = "new"
  /\ \E opens \in [DOMAIN frontends -> BOOLEAN] :
       LET after == ConnectAll(frontends, opens)
           errs == SelectSeq([i \in DOMAIN frontends |-> i],
                             LAMBDA i : ~opens[i])
       IN /\ frontends' = after
          /\ last_call' =
               Some([op |-> "connect",
                     answers |-> opens,
                     calls |-> [i \in DOMAIN frontends |-> i],
                     errors |-> errs,
                     ok |-> AnySucceeded(after)])
          /\ phase' = IF AnySucceeded(after) THEN "connected" ELSE "failed"
  /\ UNCHANGED <<cmpVars, verVars, pieceVars, parseVars, diffVars, matchVars,
                 runs, reportVars, collectVars,
                 lateVars>>

\* One of the query_* methods, all of which go through fallback_query.
Query ==
  /\ \E kind \in QueryKinds : \E answers \in [DOMAIN frontends -> BOOLEAN] :
       LET res == fallback_query(frontends, answers) IN
       last_call' =
         Some([op |-> kind,
               answers |-> answers,
               calls |-> res.calls,
               errors |-> IF res.ok THEN <<>> ELSE res.errors,
               ok |-> res.ok,
               from |-> IF res.ok THEN res.from ELSE 0])
  /\ UNCHANGED <<frontends, phase>>
  /\ UNCHANGED <<cmpVars, verVars, pieceVars, parseVars, diffVars, matchVars,
                 runs, reportVars, collectVars,
                 lateVars>>

\* CombinedStoreFrontend::close
Close ==
  /\ phase = "connected"
  /\ \E closes \in [DOMAIN frontends -> BOOLEAN] :
       LET called == SelectSeq([i \in DOMAIN frontends |-> i],
                               LAMBDA i : frontends[i].conn)
           errs == SelectSeq(called, LAMBDA i : ~closes[i])
       IN /\ frontends' =
               [i \in DOMAIN frontends |-> MemberClose(frontends[i], closes[i])]
          /\ last_call' =
               Some([op |-> "close", answers |-> closes, calls |-> called,
                     errors |-> errs, ok |-> errs = <<>>])
  /\ phase' = "closed"
  /\ UNCHANGED <<cmpVars, verVars, pieceVars, parseVars, diffVars, matchVars,
                 runs, reportVars, collectVars,
                 lateVars>>

NextStore == Connect \/ Query \/ Close

SpecStore == InitStore /\ [][NextStore]_vars

IsQuery(call) == call.some /\ call.val.op \in QueryKinds

\* C19: a query calls members in vector order and never one that is not
\* connected; it returns the first Ok without calling a later member, and
\* an error only if every connected member returned an error (or none is
\* connected).
C19_FallbackInOrder ==
  IsQuery(last_call) =>
    LET c == last_call.val
        connected == { i \in DOMAIN frontends : frontends[i].conn }
    IN /\ \A k \in 1..(Len(c.calls) - 1) : c.calls[k] < c.calls[k + 1]
       /\ \A k \in DOMAIN c.calls : c.calls[k] \in connected
       /\ c.ok =>
            /\ c.answers[c.from]
            /\ c.from \in connected
            /\ \A i \in connected : i < c.from => ~c.answers[i]
            /\ Range(c.calls) = { i \in connected : i <= c.from }
       /\ ~c.ok =>
            /\ \A i \in connected : ~c.answers[i]
            /\ Range(c.calls) = connected
       /\ c.ok <=> \E i \in connected : c.answers[i]

\* Three members, the first not connected and the second failing: the third
\* answers, and the first was never asked.
C19_Witness ==
  /\ IsQuery(last_call)
  /\ Len(frontends) = 3
  /\ ~frontends[1].conn /\ frontends[2].conn /\ frontends[3].conn
  /\ last_call.val.calls = <<2, 3>>
  /\ last_call.val.ok /\ last_call.val.from = 3

MaxOpens == 3

\* DBConnection (store.rs, db_lazy.rs), EagerDBConnection and CommandBackend.
SqlKinds == {"lazy", "eager"}
BackendKinds == SqlKinds \cup {"command"}

\* The variables of the other late specifications.
notBackend == <<closure, command, cli, lev, row_query, fmt>>
IdleNotBackend ==
  /\ IdleClosure /\ IdleCommand /\ IdleCli /\ IdleLev /\ IdleRows /\ IdleFmt

\* new(): conn is None.  `opens` counts the connections opened so far and
\* names them; `open` is history: the most recent successful connect() has
\* not been followed by a successful close().
NewBackend(kind) ==
  [kind |-> kind, conn |-> None, opens |-> 0, open |-> FALSE, call |-> None]

\* connected(): conn.is_some(); the command backend is always connected.
connected(b) == IF b.kind = "command" THEN TRUE ELSE b.conn.some

\* get_inner(): the connection, or an error before connecting.
get_inner(b) ==
  IF b.conn.some THEN [ok |-> TRUE, val |-> b.conn.val] ELSE [ok |-> FALSE]

\* connect() of a backend: `opened` is whether sqlite opens (and caches)
\* the database.  A failure returns before conn is assigned.
ConnectInner(b, opened) ==
  IF b.kind = "command" THEN [conn |-> b.conn, ok |-> TRUE]
  ELSE IF opened THEN [conn |-> Some(b.opens + 1), ok |-> TRUE]
  ELSE [conn |-> b.conn, ok |-> FALSE]

\* A close() that loses the connection whose close failed.
CloseInnerNotPutBack(b, closed) ==
  IF b.kind = "command" THEN [conn |-> b.conn, ok |-> TRUE]
  ELSE [conn |-> None, ok |-> b.conn.some /\ closed]

\* close() of a backend: take the connection, or return the error "Tried to
\* close connection ... that does not exist"; a connection whose close fails
\* is put back.
CloseInner(b, closed) ==
  IF b.kind = "command" THEN [conn |-> b.conn, ok |-> TRUE]
  ELSE IF ~b.conn.some THEN [conn |-> None, ok |-> FALSE]
  ELSE IF closed THEN [conn |-> None, ok |-> TRUE]
  ELSE [conn |-> b.conn, ok |-> FALSE]

\* A query of a SQL backend: the path is made canonical, the connection is
\* fetched with get_inner()?, and then the statement runs.
QueryInner(b, path_ok, ran) ==
  IF ~path_ok THEN [ok |-> FALSE]
  ELSE IF b.kind = "command" THEN [ok |-> ran]
  ELSE IF ~get_inner(b).ok THEN [ok |-> FALSE]
  ELSE [ok |-> ran]

InitBackend ==
  /\ \E kind \in BackendKinds : backend = NewBackend(kind)
  /\ IdleEarly /\ IdleNotBackend

BackendConnect ==
  /\ backend.opens < MaxOpens
  /\ \E opened \in BOOLEAN :
       LET r == ConnectInner(backend, opened) IN
       backend' = [backend EXCEPT
         !.conn = r.conn,
         !.opens = IF r.ok THEN @ + 1 ELSE @,
         !.open = IF r.ok THEN TRUE ELSE @,
         !.call = Some([op |-> "connect", ok |-> r.ok,
                        before |-> backend.conn])]
  /\ UNCHANGED <<earlyVars, notBackend>>

BackendClose ==
  /\ \E closed \in BOOLEAN :
       LET r == CloseInner(backend, closed) IN
       backend' = [backend EXCEPT
         !.conn = r.conn,
         !.open = IF r.ok THEN FALSE ELSE @,
         !.call = Some([op |-> "close", ok |-> r.ok,
                        before |-> backend.conn])]
  /\ UNCHANGED <<earlyVars, notBackend>>

BackendQuery ==
  /\ \E kind \in QueryKinds, path_ok \in BOOLEAN, ran \in BOOLEAN :
       LET r == QueryInner(backend, path_ok, ran) IN
       backend' = [backend EXCEPT
         !.call = Some([op |-> kind, ok |-> r.ok, before |-> backend.conn])]
  /\ UNCHANGED <<earlyVars, notBackend>>

NextBackend == BackendConnect \/ BackendClose \/ BackendQuery

SpecBackend == InitBackend /\ [][NextBackend]_vars

\* C21: close() on a backend that is not connected (already closed or never
\* connected) returns Ok and leaves it without a connection.
C21_CloseIdempotent ==
  (/\ backend.call.some
   /\ backend.call.val.op = "close"
   /\ ~backend.call.val.before.some)
    => (backend.call.val.ok /\ ~backend.conn.some)

\* C29: on a SQL backend connected() is true exactly when the most recent
\* successful connect() has not been followed by a successful close(); a
\* failed connect() or close() leaves the connection as it was; and a query
\* on a backend that is not connected returns an error.
C29_ConnectedTracksHistory ==
  backend.kind \in SqlKinds =>
    /\ connected(backend) <=> backend.open
    /\ backend.call.some =>
         LET c == backend.call.val IN
         /\ (c.op \in {"connect", "close"} /\ ~c.ok) =>
              backend.conn = c.before
         /\ (c.op \in QueryKinds /\ ~c.before.some) => ~c.ok
         /\ c.op \in QueryKinds => backend.conn = c.before

\* A second connection was opened, its close failed and it was put back: the
\* backend is still connected to it.
C29_Witness ==
  /\ backend.kind \in SqlKinds
  /\ backend.call.some
  /\ backend.call.val.op = "close" /\ ~backend.call.val.ok
  /\ backend.conn = Some(2)
  /\ backend.open

(***************************************************************************)
(* store/nix_command.rs: one query of the command backend                  *)
(***************************************************************************)

\* The most lines the subprocess writes to stdout.
MaxLines == 2

\* The variables of the other late specifications.
notCommand == <<backend, closure, cli, lev, row_query, fmt>>
IdleNotCommand ==
  /\ IdleBackend /\ IdleClosure /\ IdleCli /\ IdleLev /\ IdleRows /\ IdleFmt

\* The words of a line of output: a path under /nix/store, a number, or any
\* other text.
PathWord == [kind |-> "path", name |-> "a"]
NumberWord == [kind |-> "number", val |-> 100]
TextWord == [kind |-> "text"]

\* The lines the subprocess may write, as the words between whitespace.
OutputLines ==
  {<<>>, <<PathWord>>, <<NumberWord>>, <<TextWord>>,
   <<PathWord, NumberWord>>, <<PathWord, TextWord>>, <<TextWord, NumberWord>>}

\* What std::process::Command::output() gives: an io error when the process
\* could not be spawned, otherwise the exit status and the bytes of stdout
\* (`utf8` is whether they are valid UTF-8), whatever the status is.
Outputs ==
  {[spawned |-> FALSE]} \cup
  [spawned : {TRUE}, status : {0, 1}, utf8 : BOOLEAN,
   stdout : UNION {[1..n -> OutputLines] : n \in 0..MaxLines}]

CommandQueries ==
  {"query_closure_size", "query_system_derivations", "query_dependents"}

\* StorePath::try_from(PathBuf::from(line)): the line must start with
\* /nix/store.
LineIsStorePath(line) == line # <<>> /\ line[1].kind = "path"

\* nix_command_query: the io error and invalid UTF-8 are returned with `?`,
\* and so is the first line that is no store path; the exit status is not
\* looked at.
nix_command_query(out) ==
  IF ~out.spawned THEN [ok |-> FALSE]
  ELSE IF ~out.utf8 THEN [ok |-> FALSE]
  ELSE IF \E i \in DOMAIN out.stdout : ~LineIsStorePath(out.stdout[i])
    THEN [ok |-> FALSE]
  ELSE [ok |-> TRUE, val |-> out.stdout]

\* text.split_whitespace(): the words of all lines, in order.
RECURSIVE SplitWhitespace(_)
SplitWhitespace(lines) ==
  IF lines = <<>> THEN <<>>
  ELSE Head(lines) \o SplitWhitespace(Tail(lines))

\* CommandBackend::query_closure_size: the last word of stdout, parsed as
\* u64; the exit status is not looked at.
command_query_closure_size(out) ==
  IF ~out.spawned THEN [ok |-> FALSE]
  ELSE IF ~out.utf8 THEN [ok |-> FALSE]
  ELSE LET words == SplitWhitespace(out.stdout) IN
       IF words # <<>> /\ words[Len(words)].kind = "number"
         THEN [ok |-> TRUE, val |-> words[Len(words)].val]
         ELSE [ok |-> FALSE]

CommandQuery(kind, out) ==
  IF kind = "query_closure_size" THEN command_query_closure_size(out)
  ELSE nix_command_query(out)

InitCommand ==
  /\ command = [state |-> "new"]
  /\ IdleEarly /\ IdleNotCommand

RunCommandQuery ==
  /\ command.state = "new"
  /\ \E kind \in CommandQueries, out \in Outputs :
       command' = [state |-> "returned", kind |-> kind, out |-> out,
                   result |-> CommandQuery(kind, out)]
  /\ UNCHANGED <<earlyVars, notCommand>>

NextCommand == RunCommandQuery

SpecCommand == InitCommand /\ [][NextCommand]_vars

\* Output that the query cannot parse: bytes that are not UTF-8; for the
\* path queries a line that is no store path; for the closure size a last
\* word that is no number, or no word at all.
Unparseable(kind, out) ==
  \/ ~out.utf8
  \/ /\ kind # "query_closure_size"
     /\ \E i \in DOMAIN out.stdout :
          out.stdout[i] = <<>> \/ out.stdout[i][1].kind # "path"
  \/ /\ kind = "query_closure_size"
     /\ \A i \in DOMAIN out.stdout :
          \/ out.stdout[i] = <<>>
          \/ /\ \A j \in (i + 1)..Len(out.stdout) : out.stdout[j] = <<>>
             /\ out.stdout[i][Len(out.stdout[i])].kind # "number"

\* C23: when the subprocess exits with a non-zero status or writes output
\* that cannot be parsed, the query of the command backend returns an error.
C23_SubprocessFailureIsError ==
  (/\ command.state = "returned"
   /\ command.out.spawned
   /\ command.out.status # 0 \/ Unparseable(command.kind, command.out))
    => ~command.result.ok

(***************************************************************************)
(* store/queries.rs, store.rs: the recursive closure queries, evaluated    *)
(* the way SQLite evaluates WITH RECURSIVE ... UNION                       *)
(***************************************************************************)

\* The rows of ValidPaths and the most rows of Refs.
MaxIds == 3
MaxRefs == 3

\* The variables of the other late specifications.
notClosure == <<backend, command, cli, lev, row_query, fmt>>
IdleNotClosure ==
  /\ IdleBackend /\ IdleCommand /\ IdleCli /\ IdleLev /\ IdleRows /\ IdleFmt

\* ValidPaths.id
Ids == 1..MaxIds

\* ValidPaths.narSize of a row: the sizes are distinct powers of two, so a
\* sum tells which rows were added and how often.
NarSize(id) == 2 ^ (id - 1)

\* The contents of Refs: (referrer, reference) is its primary key.
RefsTables == {r \in SUBSET (Ids \X Ids) : Cardinality(r) <= MaxRefs}

\* The three queries with a recursive graph table.
ClosureQueries ==
  {"query_closure_size", "query_dependents", "query_dependency_graph"}

\* The initial select of graph: the id of the path that was asked for (root
\* is 0 when ValidPaths has no such path), or for the dependency graph the
\* Refs rows of that path.
InitialSelect(kind, refs, root) ==
  IF kind = "query_dependency_graph"
    THEN {e \in refs : e[1] = root}
    ELSE {id \in Ids : id = root}

\* A recursive select that walks Refs from reference to referrer.
RecursiveSelectOfReferrers(kind, refs, row) ==
  IF kind = "query_dependency_graph"
    THEN {e \in refs : e[2] = row[1]}
    ELSE {e[1] : e \in {f \in refs : f[2] = row}}

\* The recursive select, with `row` as the only row of graph: the references
\* of row, or for the dependency graph the Refs rows of its child.
RecursiveSelect(kind, refs, row) ==
  IF kind = "query_dependency_graph"
    THEN {e \in refs : e[1] = row[2]}
    ELSE {e[2] : e \in {f \in refs : f[1] = row}}

\* UNION ALL: every row the recursive select produced is queued.
UnionAll(rows, seen) == rows

\* UNION: rows that were generated before are discarded.
Union(rows, seen) == rows \ seen

\* The rows of a set as a sequence (they are queued in some order; the order
\* of extraction is open anyway).
RECURSIVE Enqueue(_)
Enqueue(rows) ==
  IF rows = {} THEN <<>>
  ELSE LET r == CHOOSE x \in rows : TRUE IN <<r>> \o Enqueue(rows \ {r})

\* The sequence without its i-th element.
RemoveAt(q, i) == SubSeq(q, 1, i - 1) \o SubSeq(q, i + 1, Len(q))

\* SUM(narSize) over graph JOIN ValidPaths ON p = id.
RECURSIVE SumNarSize(_)
SumNarSize(table) ==
  IF table = <<>> THEN 0 ELSE NarSize(Head(table)) + SumNarSize(Tail(table))

\* The final select over the finished graph table.  SUM over no rows is
\* NULL, which row.get::<_, i64>(0) refuses.
FinalSelect(kind, table) ==
  IF kind = "query_closure_size"
    THEN IF table = <<>> THEN [ok |-> FALSE]
         ELSE [ok |-> TRUE, val |-> SumNarSize(table)]
    ELSE [ok |-> TRUE, val |-> table]

InitClosure ==
  /\ \E kind \in ClosureQueries, refs \in RefsTables, root \in 0..MaxIds :
       closure = [kind |-> kind, refs |-> refs, root |-> root,
                  state |-> "prepared", queue |-> <<>>, table |-> <<>>,
                  result |-> None]
  /\ IdleEarly /\ IdleNotClosure

\* The initial select fills the queue.
ClosureStart ==
  /\ closure.state = "prepared"
  /\ closure' = [closure EXCEPT
       !.state = "running",
       !.queue = Enqueue(InitialSelect(closure.kind, closure.refs,
                                       closure.root))]
  /\ UNCHANGED <<earlyVars, notClosure>>

\* One row is taken from the queue and added to graph; the recursive select
\* runs on it and what it yields is queued.
ClosureStep ==
  /\ closure.state = "running"
  /\ \E i \in DOMAIN closure.queue :
       LET row == closure.queue[i]
           seen == Range(closure.queue) \cup Range(closure.table)
           rows == RecursiveSelect(closure.kind, closure.refs, row)
       IN closure' = [closure EXCEPT
            !.table = Append(@, row),
            !.queue = RemoveAt(@, i) \o Enqueue(Union(rows, seen))]
  /\ UNCHANGED <<earlyVars, notClosure>>

\* The queue is empty: the final select runs over graph.
ClosureFinish ==
  /\ closure.state = "running"
  /\ closure.queue = <<>>
  /\ closure' = [closure EXCEPT
       !.state = "done",
       !.result = Some(FinalSelect(closure.kind, closure.table))]
  /\ UNCHANGED <<earlyVars, notClosure>>

NextClosure == ClosureStart \/ ClosureStep \/ ClosureFinish

SpecClosure == InitClosure /\ [][NextClosure]_vars

\* The evaluation of a query goes on while it has a step to take.
SpecClosureLive == SpecClosure /\ WF_vars(NextClosure)

\* The ids reachable from id over refs in at most n steps, id included.
RECURSIVE ReachWithin(_, _, _)
ReachWithin(refs, id, n) ==
  IF n = 0 THEN {id}
  ELSE LET prev == ReachWithin(refs, id, n - 1) IN
       prev \cup {e[2] : e \in {f \in refs : f[1] \in prev}}

Reachable(refs, id) == ReachWithin(refs, id, MaxIds)

\* The sum of narSize over a set of ids, each id once.
RECURSIVE SumOfSizes(_)
SumOfSizes(ids) ==
  IF ids = {} THEN 0
  ELSE LET id == CHOOSE x \in ids : TRUE IN
       NarSize(id) + SumOfSizes(ids \ {id})

\* C22: query_closure_size(root) is the sum of narSize over the paths that
\* root reaches over Refs, root included and each path once, whatever the
\* shape of Refs (shared references, self references, cycles); so every
\* path of a cycle gets the same result.
C22_ClosureSizeIsSumOverReachable ==
  (/\ closure.state = "done"
   /\ closure.kind = "query_closure_size"
   /\ closure.root \in Ids)
    => /\ closure.result.val.ok
       /\ closure.result.val.val =
            SumOfSizes(Reachable(closure.refs, closure.root))
       /\ \A other \in Reachable(closure.refs, closure.root) :
            closure.root \in Reachable(closure.refs, other) =>
              closure.result.val.val =
                SumOfSizes(Reachable(closure.refs, other))

\* A cycle over all paths, asked from its middle: every path is counted
\* once.
C22_Witness ==
  /\ closure.state = "done"
  /\ closure.kind = "query_closure_size"
  /\ closure.refs = {<<1, 2>>, <<2, 3>>, <<3, 1>>}
  /\ closure.root = 2
  /\ closure.result.val = [ok |-> TRUE, val |-> 7]

\* No row is in graph twice.
NoRowTwice ==
  \A i, j \in DOMAIN closure.table :
    closure.table[i] = closure.table[j] => i = j

\* C28: every recursive closure query terminates on every finite Refs
\* relation, self references and cycles included: thanks to UNION no row
\* enters graph twice, and the evaluation reaches its final select.
C28_ClosureQueryTerminates ==
  /\ [](NoRowTwice /\ Len(closure.table) <= MaxIds * MaxIds)
  /\ <>(closure.state = "done")

\* The dependency graph of a path on a cycle with a self reference is done,
\* with every Refs row once.
C28_Witness ==
  /\ closure.state = "done"
  /\ closure.kind = "query_dependency_graph"
  /\ closure.refs = {<<1, 2>>, <<2, 2>>, <<2, 1>>}
  /\ closure.root = 1
  /\ Len(closure.table) = 3

(***************************************************************************)
(* main.rs: main, from the package lists to the closure size summary       *)
(***************************************************************************)

\* The variables of the other late specifications.
notCli == <<backend, closure, command, lev, row_query, fmt>>
IdleNotCli ==
  /\ IdleBackend /\ IdleClosure /\ IdleCommand /\ IdleLev /\ IdleRows
  /\ IdleFmt

\* The package names a closure may hold.
CliPackages == {"a", "b"}

\* What get_packages returns: the packages of the closure, or an error when
\* nix-store could not be run, failed, or wrote no UTF-8.
PackageLists ==
  {[ok |-> FALSE]} \cup [ok : {TRUE}, val : SUBSET CliPackages]

\* What joining a closure size thread gives: the size, the error of
\* get_closure_size, or the error of a thread that panicked.
SizeOutcomes == {"size", "error", "panicked"}

\* main handles the error of get_packages by reporting it and going on with
\* no packages.
PackagesOrEmpty(list) == IF list.ok THEN list.val ELSE {}

\* A printed line: its text and, for a section of the diff, the names
\* under it.
Line(head) == [head |-> head, names |-> {}]

\* The match over the two joined handles: the summary when both gave a size,
\* otherwise an error on stderr.
SizeSummary(pre_size, post_size) ==
  IF pre_size = "size" /\ post_size = "size"
    THEN <<Line("Closure Size:"), Line("Before:"), Line("After:"),
           Line("Difference:")>>
    ELSE <<>>

\* The three sections of the diff: added, removed and common names.
DiffSections(pre, post) ==
  <<[head |-> "Packages added:", names |-> post \ pre],
    [head |-> "Packages removed:", names |-> pre \ post],
    [head |-> "Version changes:", names |-> pre \cap post]>>

InitCli ==
  /\ cli = [pc |-> "start"]
  /\ IdleEarly /\ IdleNotCli

\* The paths are printed and, with --closure-size, the two threads started.
CliStart ==
  /\ cli.pc = "start"
  /\ \E closure_size \in BOOLEAN :
       cli' = [pc |-> "packages_pre", closure_size |-> closure_size,
               stdout |-> <<Line("<<<"), Line(">>>")>>, failed |-> FALSE]
  /\ UNCHANGED <<earlyVars, notCli>>

CliPackagesPre ==
  /\ cli.pc = "packages_pre"
  /\ \E list \in PackageLists :
       cli' = [pc |-> "packages_post", closure_size |-> cli.closure_size,
               stdout |-> cli.stdout, failed |-> ~list.ok,
               pre |-> PackagesOrEmpty(list)]
  /\ UNCHANGED <<earlyVars, notCli>>

CliPackagesPost ==
  /\ cli.pc = "packages_post"
  /\ \E list \in PackageLists :
       cli' = [pc |-> "diff", closure_size |-> cli.closure_size,
               stdout |-> cli.stdout, failed |-> cli.failed \/ ~list.ok,
               pre |-> cli.pre, post |-> PackagesOrEmpty(list)]
  /\ UNCHANGED <<earlyVars, notCli>>

\* The diff is printed from whatever the two lists hold.
CliPrintDiff ==
  /\ cli.pc = "diff"
  /\ cli' = [cli EXCEPT
       !.pc = "sizes",
       !.stdout = @ \o <<Line("Difference between the two generations:")>>
                    \o DiffSections(cli.pre, cli.post)]
  /\ UNCHANGED <<earlyVars, notCli>>

\* The handles are joined, if there are any, and main returns.
CliSizes ==
  /\ cli.pc = "sizes"
  /\ \E pre_size \in SizeOutcomes, post_size \in SizeOutcomes :
       cli' = [cli EXCEPT
         !.pc = "returned",
         !.stdout = IF cli.closure_size
                      THEN @ \o SizeSummary(pre_size, post_size)
                      ELSE @]
  /\ UNCHANGED <<earlyVars, notCli>>

NextCli ==
  CliStart \/ CliPackagesPre \/ CliPackagesPost \/ CliPrintDiff \/ CliSizes

SpecCli == InitCli /\ [][NextCli]_vars

\* C24: the lines of the size summary are written only after a package diff
\* that completed without an error.
C24_NoSummaryAfterFailedDiff ==
  (/\ cli.pc = "returned"
   /\ \E i \in DOMAIN cli.stdout : cli.stdout[i].head = "Closure Size:")
    => ~cli.failed

(***************************************************************************)
(* diff.rs: levenshtein on its own                                         *)
(***************************************************************************)

\* The longest slice levenshtein is called with.
MaxLevLen == 3

\* The variables of the other late specifications.
notLev == <<backend, closure, command, cli, row_query, fmt>>
IdleNotLev ==
  /\ IdleBackend /\ IdleClosure /\ IdleCommand /\ IdleCli /\ IdleRows
  /\ IdleFmt

\* The elements of the slices (T: Eq).
LevElements == {"a", "b", "c"}

LevSlices == UNION {[1..n -> LevElements] : n \in 0..MaxLevLen}

InitLev ==
  /\ lev = [state |-> "new"]
  /\ IdleEarly /\ IdleNotLev

\* levenshtein is called on a pair of slices, and on the same pair the other
\* way round.
CallLevenshtein ==
  /\ lev.state = "new"
  /\ \E from \in LevSlices, to \in LevSlices :
       lev' = [state |-> "returned", from |-> from, to |-> to,
               distance |-> levenshtein(from, to),
               reverse |-> levenshtein(to, from)]
  /\ UNCHANGED <<earlyVars, notLev>>

NextLev == CallLevenshtein

SpecLev == InitLev /\ [][NextLev]_vars

\* The least of three numbers.
Least3(a, b, c) ==
  IF a <= b /\ a <= c THEN a ELSE IF b <= c THEN b ELSE c

\* The edit distance by its defining recursion: the least number of
\* insertions, deletions and substitutions that turn a into b.
RECURSIVE EditDistance(_, _)
EditDistance(a, b) ==
  IF a = <<>> THEN Len(b)
  ELSE IF b = <<>> THEN Len(a)
  ELSE IF Head(a) = Head(b) THEN EditDistance(Tail(a), Tail(b))
  ELSE 1 + Least3(EditDistance(Tail(a), b),
                  EditDistance(a, Tail(b)),
                  EditDistance(Tail(a), Tail(b)))

\* C26: levenshtein(from, to) is the edit distance of the two slices, empty
\* slices and a longer `from` included; it is symmetric, zero on equal
\* slices (and only there) and at most the length of the longer slice.
C26_LevenshteinIsEditDistance ==
  lev.state = "returned" =>
    /\ lev.distance = EditDistance(lev.from, lev.to)
    /\ lev.distance = lev.reverse
    /\ lev.from = lev.to <=> lev.distance = 0
    /\ lev.distance <= (IF Len(lev.from) > Len(lev.to)
                          THEN Len(lev.from) ELSE Len(lev.to))
    /\ lev.from = <<>> => lev.distance = Len(lev.to)
    /\ lev.to = <<>> => lev.distance = Len(lev.from)

\* A longer `from`: "abc" to "ca" takes three edits.
C26_Witness ==
  /\ lev.state = "returned"
  /\ lev.from = <<"a", "b", "c">>
  /\ lev.to = <<"c", "a">>
  /\ lev.distance = 3

(***************************************************************************)
(* diff.rs: fmt_single_version_diff                                        *)
(***************************************************************************)

\* The longest version name fmt_single_version_diff is called with.
MaxFmtLen == 3

\* The variables of the other late specifications.
notFmt == <<backend, closure, command, cli, lev, row_query>>
IdleNotFmt ==
  /\ IdleBackend /\ IdleClosure /\ IdleCommand /\ IdleCli /\ IdleLev
  /\ IdleRows

FmtAlphabet == {"1", "a", "."}

\* The versions of a call: a name and an amount.
FmtVersions ==
  [name : StringsUpTo(FmtAlphabet, MaxFmtLen), amount : {1, 2}]

\* iter().zip(..).take_while(|(a, b)| a == b).count()
RECURSIVE CommonPrefixLen(_, _)
CommonPrefixLen(a, b) ==
  IF a = <<>> \/ b = <<>> \/ Head(a) # Head(b) THEN 0
  ELSE 1 + CommonPrefixLen(Tail(a), Tail(b))

\* iter().rev()
Reversed(seq) == [i \in 1..Len(seq) |-> seq[Len(seq) + 1 - i]]

\* A wrong suffix length: counted over the whole piece vectors.
SuffixLenOfWhole(old_parts, new_parts, prefix_len) ==
  CommonPrefixLen(Reversed(old_parts), Reversed(new_parts))

\* suffix_len: counted over what is left after the common prefix, and 0
\* when one remainder is empty.
SuffixLen(old_parts, new_parts, prefix_len) ==
  LET old_remainder == SubSeq(old_parts, prefix_len + 1, Len(old_parts))
      new_remainder == SubSeq(new_parts, prefix_len + 1, Len(new_parts))
  IN IF old_remainder # <<>> /\ new_remainder # <<>>
       THEN CommonPrefixLen(Reversed(old_remainder), Reversed(new_remainder))
       ELSE 0

\* A run of characters written in one colour.
Frag(text, colour) == [text |-> text, colour |-> colour]

\* What was written for one piece.
Written(piece, frags) == [piece |-> piece, frags |-> frags]

\* write_version_piece: a component in the given style, a separator as is.
write_version_piece(piece, colour) ==
  Written(piece,
          <<Frag(piece.text,
                 IF piece.kind = "Component" THEN colour ELSE "plain")>>)

\* The edit scripts from a to b: Left and Right characters and Both pairs of
\* equal characters.
RECURSIVE EditScripts(_, _)
EditScripts(a, b) ==
  IF a = <<>> /\ b = <<>> THEN {<<>>}
  ELSE
    (IF a # <<>>
       THEN {<<[op |-> "Left", l |-> Head(a), r |-> Head(a)]>> \o t :
               t \in EditScripts(Tail(a), b)}
       ELSE {})
    \cup
    (IF b # <<>>
       THEN {<<[op |-> "Right", l |-> Head(b), r |-> Head(b)]>> \o t :
               t \in EditScripts(a, Tail(b))}
       ELSE {})
    \cup
    (IF a # <<>> /\ b # <<>> /\ Head(a) = Head(b)
       THEN {<<[op |-> "Both", l |-> Head(a), r |-> Head(b)]>> \o t :
               t \in EditScripts(Tail(a), Tail(b))}
       ELSE {})

\* diff::chars(old, new): a script with a longest common subsequence as its
\* Both pairs; which one the crate picks is left open.
DiffChars(a, b) ==
  LET all == EditScripts(a, b) IN
  {t \in all : \A u \in all : Len(u) >= Len(t)}

\* The loop over char_diffs: what goes to the old and to the new string.
\* Matching characters are yellow until the first difference and red / green
\* after it.
RECURSIVE CharDiffFrags(_, _, _, _)
CharDiffFrags(script, diff_active, old_frags, new_frags) ==
  IF script = <<>> THEN [old |-> old_frags, new |-> new_frags]
  ELSE LET res == Head(script) IN
       IF res.op = "Both"
         THEN CharDiffFrags(Tail(script), diff_active,
                Append(old_frags,
                       Frag(<<res.l>>,
                            IF diff_active THEN "red" ELSE "yellow")),
                Append(new_frags,
                       Frag(<<res.r>>,
                            IF diff_active THEN "green" ELSE "yellow")))
       ELSE IF res.op = "Left"
         THEN CharDiffFrags(Tail(script), TRUE,
                Append(old_frags, Frag(<<res.l>>, "red")), new_frags)
       ELSE CharDiffFrags(Tail(script), TRUE,
                old_frags, Append(new_frags, Frag(<<res.r>>, "green")))

\* The length above which two components without a common position are
\* written whole.
LongComponent == 20

\* all(|(old_char, new_char)| old_char != new_char) over the zipped chars
NoPositionEqual(a, b) ==
  \A i \in 1..(IF Len(a) < Len(b) THEN Len(a) ELSE Len(b)) : a[i] # b[i]

\* fmt_version_piece_pair: what may be written for a pair of pieces.
fmt_version_piece_pair(old_piece, new_piece) ==
  IF old_piece = new_piece
    THEN {[old |-> write_version_piece(old_piece, "yellow"),
           new |-> write_version_piece(new_piece, "yellow")]}
  ELSE IF old_piece.kind = "Component" /\ new_piece.kind = "Component"
    THEN IF /\ Len(old_piece.text) > LongComponent
            /\ Len(new_piece.text) > LongComponent
            /\ NoPositionEqual(old_piece.text, new_piece.text)
           THEN {[old |-> Written(old_piece, <<Frag(old_piece.text, "red")>>),
                  new |-> Written(new_piece,
                                  <<Frag(new_piece.text, "green")>>)]}
           ELSE {LET f == CharDiffFrags(script, FALSE, <<>>, <<>>) IN
                 [old |-> Written(old_piece, f.old),
                  new |-> Written(new_piece, f.new)] :
                 script \in DiffChars(old_piece.text, new_piece.text)}
  ELSE {[old |-> write_version_piece(old_piece, "red"),
         new |-> write_version_piece(new_piece, "green")]}

\* The loop over zip_longest(old_diff, new_diff) from position i on.
RECURSIVE FmtMiddle(_, _, _)
FmtMiddle(old_diff, new_diff, i) ==
  IF i > Len(old_diff) /\ i > Len(new_diff) THEN {[old |-> <<>>, new |-> <<>>]}
  ELSE LET rest == FmtMiddle(old_diff, new_diff, i + 1) IN
       IF i > Len(new_diff)
         THEN {[old |-> <<write_version_piece(old_diff[i], "red")>> \o t.old,
                new |-> t.new] : t \in rest}
       ELSE IF i > Len(old_diff)
         THEN {[old |-> t.old,
                new |-> <<write_version_piece(new_diff[i], "green")>>
                          \o t.new] : t \in rest}
       ELSE {[old |-> <<w.old>> \o t.old, new |-> <<w.new>> \o t.new] :
               w \in fmt_version_piece_pair(old_diff[i], new_diff[i]),
               t \in rest}

\* The common pieces, written in yellow.
FmtCommon(ps) == [i \in 1..Len(ps) |-> write_version_piece(ps[i], "yellow")]

\* The amounts written after the pieces, each None or a number and colour.
FmtAmounts(old_ver, new_ver) ==
  IF old_ver.amount = new_ver.amount
    THEN IF old_ver.amount > 1
           THEN [old |-> Some([n |-> old_ver.amount, colour |-> "yellow"]),
                 new |-> Some([n |-> new_ver.amount, colour |-> "yellow"])]
           ELSE [old |-> None, new |-> None]
    ELSE [old |-> IF old_ver.amount > 1
                    THEN Some([n |-> old_ver.amount, colour |-> "red"])
                    ELSE None,
          new |-> IF new_ver.amount > 1
                    THEN Some([n |-> new_ver.amount, colour |-> "green"])
                    ELSE None]

\* What a call that wrote nothing returns: by the early return, or by a
\* panic at a slice whose indices are out of range.
FmtNothing(outcome, prefix_len, suffix_len) ==
  [outcome |-> outcome, prefix_len |-> prefix_len, suffix_len |-> suffix_len,
   old |-> <<>>, new |-> <<>>, old_amount |-> None, new_amount |-> None]

\* fn fmt_single_version_diff: the results it may give.
fmt_single_version_diff(old_ver, new_ver) ==
  LET old_parts == PiecesOf(old_ver.name)
      new_parts == PiecesOf(new_ver.name)
  IN
  IF (old_parts = <<>> /\ new_parts = <<>>) \/ old_ver = new_ver
    THEN {FmtNothing("early", 0, 0)}
  ELSE
    LET prefix_len == CommonPrefixLen(old_parts, new_parts)
        suffix_len == SuffixLen(old_parts, new_parts, prefix_len)
        old_diff_end == Len(old_parts) - suffix_len
        new_diff_end == Len(new_parts) - suffix_len
    IN
    IF old_diff_end < prefix_len \/ new_diff_end < prefix_len
      THEN {FmtNothing("panicked", prefix_len, suffix_len)}
    ELSE
      LET prefix == SubSeq(old_parts, 1, prefix_len)
          old_diff == SubSeq(old_parts, prefix_len + 1, old_diff_end)
          new_diff == SubSeq(new_parts, prefix_len + 1, new_diff_end)
          suffix == IF suffix_len > 0
                      THEN SubSeq(old_parts, old_diff_end + 1, Len(old_parts))
                      ELSE <<>>
          amounts == FmtAmounts(old_ver, new_ver)
      IN {[outcome |-> "written",
           prefix_len |-> prefix_len, suffix_len |-> suffix_len,
           old |-> FmtCommon(prefix) \o m.old \o FmtCommon(suffix),
           new |-> FmtCommon(prefix) \o m.new \o FmtCommon(suffix),
           old_amount |-> amounts.old, new_amount |-> amounts.new] :
          m \in FmtMiddle(old_diff, new_diff, 1)}

InitFmt ==
  /\ fmt = [state |-> "new"]
  /\ IdleEarly /\ IdleNotFmt

CallFmtSingleVersionDiff ==
  /\ fmt.state = "new"
  /\ \E old_ver \in FmtVersions, new_ver \in FmtVersions :
     \E r \in fmt_single_version_diff(old_ver, new_ver) :
       fmt' = [state |-> "returned", old_ver |-> old_ver,
               new_ver |-> new_ver, result |-> r]
  /\ UNCHANGED <<earlyVars, notFmt>>

NextFmt == CallFmtSingleVersionDiff

SpecFmt == InitFmt /\ [][NextFmt]_vars

\* The pieces of what was written to one side, and whether each was written
\* with its own text.
WrittenPieces(side) == [i \in 1..Len(side) |-> side[i].piece]

WrittenInFull(side) ==
  \A i \in 1..Len(side) :
    Concat([j \in 1..Len(side[i].frags) |-> side[i].frags[j].text])
      = side[i].piece.text

\* C30: for two distinct versions, the common prefix and the common suffix
\* of the piece vectors do not overlap (prefix_len + suffix_len is at most
\* the length of the shorter vector), so no slice is out of range and the
\* call does not panic; the pieces written to the old side are the pieces
\* of the old version in order, and likewise for the new side.
C30_PrefixSuffixDisjoint ==
  (fmt.state = "returned" /\ fmt.old_ver # fmt.new_ver) =>
    LET r == fmt.result
        old_parts == PiecesOf(fmt.old_ver.name)
        new_parts == PiecesOf(fmt.new_ver.name)
    IN /\ r.outcome # "panicked"
       /\ r.prefix_len + r.suffix_len <= Len(old_parts)
       /\ r.prefix_len + r.suffix_len <= Len(new_parts)
       /\ WrittenPieces(r.old) = old_parts /\ WrittenInFull(r.old)
       /\ WrittenPieces(r.new) = new_parts /\ WrittenInFull(r.new)

\* "1.1" against "1": the last piece of the old version equals the only
\* piece of the new one, which is already the common prefix.
C30_Witness ==
  /\ fmt.state = "returned"
  /\ fmt.old_ver.name = <<"1", ".", "1">>
  /\ fmt.new_ver.name = <<"1">>
  /\ fmt.result.outcome = "written"
  /\ fmt.result.prefix_len = 1 /\ fmt.result.suffix_len = 0
  /\ Len(fmt.result.old) = 3 /\ Len(fmt.result.new) = 1

(***************************************************************************)
(* store/db_lazy.rs, store/db_eager.rs: execute_row_query_with_path and    *)
(* the iterator it returns                                                 *)
(***************************************************************************)

\* The most rows a query results in.
MaxRows == 3

\* The variables of the other late specifications.
notRows == <<backend, closure, command, cli, lev, fmt>>
IdleNotRows ==
  /\ IdleBackend /\ IdleClosure /\ IdleCommand /\ IdleCli /\ IdleLev
  /\ IdleFmt

\* What `map` makes of a row: a value, or a conversion error.
MappedRow == {[ok |-> TRUE, val |-> 1], [ok |-> TRUE, val |-> 2],
              [ok |-> FALSE]}

\* The rows of a result, mapped, in result order (MappedRows).
MappedRowSeqs == UNION {[1..n -> MappedRow] : n \in 0..MaxRows}

RowModes == {"lazy", "eager"}

\* A try_new that does not look at the first row.
TryNewWithoutPeek(executed, mapped) ==
  IF ~executed THEN [ok |-> FALSE] ELSE [ok |-> TRUE, inner |-> mapped]

\* QueryIterator::try_new: an error when the statement cannot be run
\* (prepare_cached, query_map) or when the first row, peeked at, is an
\* error; otherwise the iterator over the rows.
TryNew(executed, mapped) ==
  IF ~executed THEN [ok |-> FALSE]
  ELSE IF mapped # <<>> /\ ~mapped[1].ok THEN [ok |-> FALSE]
  ELSE [ok |-> TRUE, inner |-> mapped]

\* The number of leading rows that are errors.
RECURSIVE LeadingErrors(_)
LeadingErrors(mapped) ==
  IF mapped = <<>> \/ Head(mapped).ok THEN 0
  ELSE 1 + LeadingErrors(Tail(mapped))

\* QueryIterator::next: filter_map passes over the rows that are errors,
\* with a warning for each, and yields the next value; None at the end.
LazyNext(inner) ==
  LET skipped == LeadingErrors(inner)
      rest == SubSeq(inner, skipped + 1, Len(inner))
  IN IF rest = <<>>
       THEN [item |-> None, inner |-> <<>>, warned |-> skipped]
       ELSE [item |-> Some(Head(rest).val), inner |-> Tail(rest),
             warned |-> skipped]

\* EagerDBConnection::execute_row_query_with_path: every row is pushed with
\* `row?`, so the first error is returned for the whole query.
EagerCollect(executed, mapped) ==
  IF ~executed THEN [ok |-> FALSE]
  ELSE IF \E i \in DOMAIN mapped : ~mapped[i].ok THEN [ok |-> FALSE]
  ELSE [ok |-> TRUE, inner |-> mapped]

\* execute_row_query_with_path of the two backends.
execute_row_query(mode, executed, mapped) ==
  IF mode = "lazy" THEN TryNew(executed, mapped)
  ELSE EagerCollect(executed, mapped)

InitRows ==
  /\ row_query = [state |-> "new"]
  /\ IdleEarly /\ IdleNotRows

\* The query is run; on Ok the caller holds an iterator.
RowQueryRun ==
  /\ row_query.state = "new"
  /\ \E mode \in RowModes, executed \in BOOLEAN, mapped \in MappedRowSeqs :
       LET r == execute_row_query(mode, executed, mapped) IN
       row_query' = [state |-> IF r.ok THEN "iterating" ELSE "failed",
                     mode |-> mode, executed |-> executed,
                     mapped |-> mapped,
                     inner |-> IF r.ok THEN r.inner ELSE <<>>,
                     yielded |-> <<>>, warned |-> 0]
  /\ UNCHANGED <<earlyVars, notRows>>

\* The caller asks the iterator for its next item.
RowIteratorNext ==
  /\ row_query.state = "iterating"
  /\ LET n == LazyNext(row_query.inner) IN
     row_query' = [row_query EXCEPT
       !.state = IF n.item.some THEN "iterating" ELSE "exhausted",
       !.inner = n.inner,
       !.yielded = IF n.item.some THEN Append(@, n.item.val) ELSE @,
       !.warned = @ + n.warned]
  /\ UNCHANGED <<earlyVars, notRows>>

NextRows == RowQueryRun \/ RowIteratorNext

SpecRows == InitRows /\ [][NextRows]_vars

\* The values of the rows that converted, in result order.
RECURSIVE ConvertibleRows(_)
ConvertibleRows(mapped) ==
  IF mapped = <<>> THEN <<>>
  ELSE IF Head(mapped).ok
    THEN <<Head(mapped).val>> \o ConvertibleRows(Tail(mapped))
    ELSE ConvertibleRows(Tail(mapped))

IsPrefixOf(a, b) == Len(a) <= Len(b) /\ a = SubSeq(b, 1, Len(a))

\* C27: the lazy query returns an error exactly when the statement cannot be
\* run or the first row does not convert, and otherwise yields the rows
\* that convert, in result order, passing over every later row that does
\* not (with one warning each); the eager query returns an error exactly
\* when the statement cannot be run or some row does not convert, and
\* otherwise yields all rows.
C27_RowErrorDiscipline ==
  row_query.state # "new" =>
    LET q == row_query
        failing == {i \in DOMAIN q.mapped : ~q.mapped[i].ok}
    IN /\ q.mode = "lazy" =>
            (q.state = "failed" <=> (~q.executed \/ 1 \in failing))
       /\ q.mode = "eager" =>
            (q.state = "failed" <=> (~q.executed \/ failing # {}))
       /\ q.state = "failed" => q.yielded = <<>>
       /\ q.state = "iterating" =>
            IsPrefixOf(q.yielded, ConvertibleRows(q.mapped))
       /\ q.state = "exhausted" =>
            /\ q.yielded = ConvertibleRows(q.mapped)
            /\ q.warned = Cardinality(failing)
            /\ q.mode = "eager" => Len(q.yielded) = Len(q.mapped)

\* A lazy query over three rows whose second does not convert: the first
\* and the third were yielded, with one warning.
C27_Witness ==
  /\ row_query.state = "exhausted"
  /\ row_query.mode = "lazy"
  /\ row_query.mapped = <<[ok |-> TRUE, val |-> 2], [ok |-> FALSE],
                          [ok |-> TRUE, val |-> 1]>>
  /\ row_query.yielded = <<2, 1>>
  /\ row_query.warned = 1

=============================================================================
